---- MODULE Spec2Model ----
(***************************************************************************)
(* Model of the dolores-assistant orchestrator:                            *)
(*   - ServiceClient (pipeline.py): the gateway to the STT, Brain and TTS  *)
(*     services with its two capacity-one semaphores;                      *)
(*   - run_tool_loop (pipeline.py): the bounded tool-calling loop;         *)
(*   - conversation_ws / _process_and_respond (routes.py): the WebSocket   *)
(*     session handler, together with the Brain's streaming generator      *)
(*     (dolores_brain/routes.py) that feeds chat_stream.                   *)
(*                                                                         *)
(* Text and audio are sequences of one-character strings.  Python's None   *)
(* is the string NoneStr where a string is expected and a record with      *)
(* none = TRUE where bytes or a dict are expected.                         *)
(***************************************************************************)
EXTENDS Integers, Sequences, FiniteSets, TLC

\* ------------------------------------------------------------------ bounds
NumCallers == 3
MaxBuf == 2
MaxDeltas == 2
MaxIter == 3
MaxToolCalls == 2
\* longest text given to split_sentences on its own
MaxText == 5
\* conversations the Brain creates under an id of its own
MaxConvs == 2
\* create, update and delete operations in the life of one todo data file
MaxOps == 3
\* largest BACKUP_COUNT the todo store is configured with
MaxBackups == 2
\* lines in one streamed response body
MaxLines == 3

\* --------------------------------------------------------------- constants
SttPermits == 1
TtsPermits == 1

NoneStr == "None"

VARIABLES
    \* ServiceClient and the module-level semaphores
    stt_sem, tts_sem, gw,
    \* one WebSocket connection handled by conversation_ws
    service_client, pc, ws, first, last, auth, session_id, conversation_id,
    voice_id, provider, mode, audio_buffer,
    \* what the connection has observably done: frames sent and gateway calls
    \* made since the last inbound message, the kind of turn that message
    \* asked for, and the number of session.created frames sent so far
    sent, calls, req, created,
    \* the turn in progress (_process_and_respond), the Brain's generator and
    \* the events chat_stream has yielded for it
    full_text, sentences, brain, events,
    \* run_tool_loop
    tl,
    \* one call of check_all_services with its three probes
    hc,
    \* one call of split_sentences
    seg,
    \* the Brain's ConversationStore (the ids that exist) and the
    \* conversation_id of the latest event the Brain returned on this connection
    store, bconv,
    \* the credentials of the handshake that validate_ws_token rejected
    rejected,
    \* the todo application's JsonStore: its files and the running store
    js,
    \* one response body read by ServiceClient.chat_stream
    sse,
    \* the Brain's database and the chat requests the Brain is serving
    cdb

gwVars == <<stt_sem, tts_sem, gw>>
paramVars == <<session_id, conversation_id, voice_id, provider, mode>>
connVars == <<service_client, pc, ws, first, last, auth, session_id, conversation_id,
              voice_id, provider, mode, audio_buffer, sent, calls, req, created>>
turnVars == <<full_text, sentences, brain, events>>
auxVars == <<hc, seg, rejected, js, sse, cdb>>
storeVars == <<store, bconv>>
vars == <<stt_sem, tts_sem, gw, service_client, pc, ws, first, last, auth, session_id,
          conversation_id, voice_id, provider, mode, audio_buffer, sent, calls,
          req, created, full_text, sentences, brain, events, tl, hc, seg, store, bconv, rejected, js, sse, cdb>>

\* ------------------------------------------------------------------ text
\* characters matched by \s and removed by str.strip()
Whitespace == {" ", "\n"}
Punct == {".", "!", "?"}

RECURSIVE LStrip(_)
LStrip(t) == IF t # <<>> /\ Head(t) \in Whitespace THEN LStrip(Tail(t)) ELSE t

RECURSIVE RStrip(_)
RStrip(t) ==
    IF t # <<>> /\ t[Len(t)] \in Whitespace
    THEN RStrip(SubSeq(t, 1, Len(t) - 1)) ELSE t

\* str.strip()
\* (variant: the text is used as received)
StripNothing(t) == t
Strip(t) == RStrip(LStrip(t))

\* ------------------------------------------------------- ServiceClient
Callers == 1 .. NumCallers
Gated == {"transcribe", "synthesize"}
Ungated == {"chat", "chat_stream"}

NoResult == [none |-> TRUE, val |-> <<>>]
Some(v) == [none |-> FALSE, val |-> v]
GwIdle == [op |-> "idle", phase |-> "idle", fail |-> "none", res |-> NoResult]

\* what a backend request can do: answer 200 with a body, or fail
Failures == {"network", "timeout", "status", "not_started"}
Transcripts == {<<>>, <<" ">>, <<" ", "a">>}
AudioOut == {<<>>, <<"w">>, <<"v">>}
ChatBodies == {<<"m">>}
\* chat_stream seen from its caller: the types of the events it yields
StreamBodies == {<<"done">>, <<"token", "done">>}
Bodies(op) ==
    CASE op = "transcribe" -> Transcripts
      [] op = "synthesize" -> AudioOut
      [] op = "chat_stream" -> StreamBodies
      [] OTHER -> ChatBodies
\* what was yielded before a failure: only a stream that was opened can
\* have yielded something
Partial(op, fail) ==
    IF op = "chat_stream" /\ fail \in {"network", "timeout"}
    THEN {<<>>, <<"token">>} ELSE {<<>>}
Outcomes(op) ==
    [ok : {TRUE}, fail : {"none"}, body : Bodies(op)]
        \cup UNION {[ok : {FALSE}, fail : {f}, body : Partial(op, f)] : f \in Failures}

\* asyncio.Semaphore: acquire proceeds only when the counter is positive
CanAcquireBroken(sem) == TRUE
CanAcquire(sem) == sem > 0

\* (variant: one semaphore guards both services)
SemOfOneGate(op) == stt_sem
SemOf(op) == IF op = "transcribe" THEN stt_sem ELSE tts_sem

\* entering a ServiceClient method: gated calls first wait for their semaphore
\* (variant: the call in progress is kept in one attribute of the shared
\* ServiceClient instead of in the caller's frame)
GwEnterShared(c, op) ==
    gw' = [d \in Callers |-> [op |-> op,
                              phase |-> IF op \in Gated THEN "wait" ELSE "req",
                              fail |-> "none",
                              res |-> NoResult]]
GwEnter(c, op) ==
    gw' = [gw EXCEPT ![c] = [op |-> op,
                             phase |-> IF op \in Gated THEN "wait" ELSE "req",
                             fail |-> "none",
                             res |-> NoResult]]

\* "async with _stt_semaphore" / "async with _tts_semaphore"
GateAcquire(c) ==
    /\ gw[c].phase = "wait"
    /\ CanAcquire(SemOf(gw[c].op))
    /\ gw' = [gw EXCEPT ![c].phase = "req"]
    /\ IF gw[c].op = "transcribe"
       THEN stt_sem' = stt_sem - 1 /\ UNCHANGED tts_sem
       ELSE tts_sem' = tts_sem - 1 /\ UNCHANGED stt_sem
    /\ UNCHANGED <<connVars, turnVars, tl, auxVars, storeVars>>

\* the value the method returns: the body on success, None on any exception
\* (variant: an empty result instead of None after an exception)
ReturnValueEmpty(o) == IF o.ok THEN Some(o.body) ELSE Some(<<>>)
ReturnValue(o) == IF o.ok THEN Some(o.body) ELSE NoResult

\* chat_stream's except clause yields an error event after what was yielded
StreamYield(o) == IF o.ok THEN Some(o.body) ELSE Some(Append(o.body, "error"))

\* how the method ends: every statement that can fail is inside the try, so
\* it always ends normally
\* (variant: raise_for_status() is called after the try block)
HowEndsStatusRaises(o) == IF o.fail = "status" THEN "raised" ELSE "ret"
HowEnds(o) == "ret"

\* (variant: the semaphore is acquired without "async with" and the return
\* forgets to release it)
BackendReplyHolds(c) ==
    /\ gw[c].phase = "req"
    /\ gw[c].op \in Gated \cup Ungated
    /\ \E o \in Outcomes(gw[c].op) :
          gw' = [gw EXCEPT ![c].phase = HowEnds(o),
                           ![c].fail = o.fail,
                           ![c].res = IF gw[c].op = "chat_stream"
                                      THEN StreamYield(o) ELSE ReturnValue(o)]
    /\ UNCHANGED <<stt_sem, tts_sem>>
    /\ UNCHANGED <<connVars, turnVars, tl, auxVars, storeVars>>

\* the backend request completes or fails; the method leaves the
\* "async with" block (releasing its semaphore) and returns
BackendReply(c) ==
    /\ gw[c].phase = "req"
    /\ gw[c].op \in Gated \cup Ungated
    /\ \E o \in Outcomes(gw[c].op) :
          gw' = [gw EXCEPT ![c].phase = HowEnds(o),
                           ![c].fail = o.fail,
                           ![c].res = IF gw[c].op = "chat_stream"
                                      THEN StreamYield(o) ELSE ReturnValue(o)]
    /\ CASE gw[c].op = "transcribe" -> stt_sem' = stt_sem + 1 /\ UNCHANGED tts_sem
         [] gw[c].op = "synthesize" -> tts_sem' = tts_sem + 1 /\ UNCHANGED stt_sem
         [] OTHER -> UNCHANGED <<stt_sem, tts_sem>>
    /\ UNCHANGED <<connVars, turnVars, tl, auxVars, storeVars>>

\* ---- concurrent callers of the gateway (any task of the process)
Invoke(c) ==
    /\ gw[c].phase = "idle"
    /\ \E op \in Gated \cup Ungated : GwEnter(c, op)
    /\ UNCHANGED <<stt_sem, tts_sem, connVars, turnVars, tl, auxVars, storeVars>>

\* the calling task is cancelled at its await. CancelledError is not an
\* Exception, so it leaves the method; on its way out of an "async with"
\* block that was entered, __aexit__ releases the semaphore, while a task
\* still waiting in acquire() holds nothing
\* (variant: the semaphore is taken with acquire() and released only on the
\* paths that return)
CancelReleaseNever(phase) == 0
CancelRelease(phase) == IF phase = "req" THEN 1 ELSE 0

Cancel(c) ==
    /\ gw[c].phase \in {"wait", "req"}
    /\ gw' = [gw EXCEPT ![c].phase = "cancelled", ![c].res = NoResult]
    /\ CASE gw[c].op = "transcribe" ->
                stt_sem' = stt_sem + CancelRelease(gw[c].phase) /\ UNCHANGED tts_sem
         [] gw[c].op = "synthesize" ->
                tts_sem' = tts_sem + CancelRelease(gw[c].phase) /\ UNCHANGED stt_sem
         [] OTHER -> UNCHANGED <<stt_sem, tts_sem>>
    /\ UNCHANGED <<connVars, turnVars, tl, auxVars, storeVars>>

\* the caller has its result (or its task is gone) and may call again
Resume(c) ==
    /\ gw[c].phase \in {"ret", "cancelled"}
    /\ gw' = [gw EXCEPT ![c] = GwIdle]
    /\ UNCHANGED <<stt_sem, tts_sem, connVars, turnVars, tl, auxVars, storeVars>>

InFlight(op) == {c \in Callers : gw[c].op = op /\ gw[c].phase = "req"}
Waiting(op) == {c \in Callers : gw[c].op = op /\ gw[c].phase = "wait"}

InitGw ==
    /\ stt_sem = SttPermits
    /\ tts_sem = TtsPermits
    /\ gw = [c \in Callers |-> GwIdle]

\* API key configured, token query parameter, token field of session.start
NoCred == [key |-> NoneStr, query |-> NoneStr, msg |-> NoneStr]

BrainOff == [phase |-> "off", n |-> 0, full |-> <<>>, conv |-> NoneStr]

InitConnIdle ==
    /\ service_client = "started"
    /\ pc = "off" /\ ws = "none" /\ first = "none" /\ last = "none"
    /\ auth = "pending"
    /\ session_id = NoneStr /\ conversation_id = NoneStr
    /\ voice_id = NoneStr /\ provider = NoneStr /\ mode = NoneStr
    /\ audio_buffer = <<>> /\ sent = <<>> /\ calls = <<>>
    /\ req = "none" /\ created = 0
    /\ full_text = <<>> /\ sentences = <<>>
    /\ brain = BrainOff /\ events = <<>>
    /\ store = {} /\ bconv = NoneStr
    /\ rejected = NoCred

InitLoopIdle == tl = [pc |-> "off"]

InitHealthIdle == hc = [pc |-> "off"]
InitSegIdle == seg = [pc |-> "off"]
InitStoreIdle == js = [pc |-> "off"]
InitSseIdle == sse = [pc |-> "off"]
InitChatIdle == cdb = [pc |-> "off"]
InitAuxIdle ==
    InitHealthIdle /\ InitSegIdle /\ InitStoreIdle /\ InitSseIdle /\ InitChatIdle

InitGates == InitGw /\ InitConnIdle /\ InitLoopIdle /\ InitAuxIdle

NextGates ==
    \E c \in Callers :
        Invoke(c) \/ GateAcquire(c) \/ BackendReply(c) \/ Cancel(c) \/ Resume(c)

SpecGates == InitGates /\ [][NextGates]_vars

\* callers that only use the gated methods. Every request is answered or
\* times out (the httpx timeout of each request), and asyncio.Semaphore wakes
\* its waiters in turn, so a waiter that can acquire again and again does
\* acquire
NextGated ==
    /\ NextGates
    /\ \A c \in Callers : /\ gw'[c].op \in Gated \cup {"idle"}
                          /\ gw'[c].fail \in {"none", "timeout"}

FairGates ==
    /\ InitGates /\ [][NextGated]_vars
    /\ \A c \in Callers : WF_vars(BackendReply(c)) /\ SF_vars(GateAcquire(c))

\* ------------------------------------------------- check_all_services
Backends == {"stt", "tts", "brain"}
\* what a backend does with GET /health: answers 200, answers another
\* status, refuses the connection, or does not answer within the 2 s timeout
ProbeFates == {"200", "503", "refused", "timeout"}

\* check_service: "healthy" only for a response with status 200; any
\* exception (client not started included) and any other status: "unhealthy"
\* (variant: every response counts as healthy, whatever its status)
check_service_any_status(started, fate) ==
    IF started /\ fate \in {"200", "503"} THEN "healthy" ELSE "unhealthy"
check_service(started, fate) ==
    IF started /\ fate = "200" THEN "healthy" ELSE "unhealthy"

InitHealth ==
    /\ InitGw /\ InitConnIdle /\ InitLoopIdle /\ InitSegIdle /\ InitStoreIdle /\ InitSseIdle
    /\ InitChatIdle
    /\ \E st \in BOOLEAN, f \in [Backends -> ProbeFates] :
          hc = [pc |-> "gather", started |-> st, fate |-> f,
                probe |-> [b \in Backends |-> "pending"],
                result |-> [b \in Backends |-> NoneStr],
                order |-> <<>>,
                out |-> [b \in Backends |-> NoneStr]]

\* a probe task runs up to its await: the request is on its way, or
\* self.client raised and the task is finished already
HealthProbeStart(b) ==
    /\ hc.pc = "gather" /\ hc.probe[b] = "pending"
    /\ hc' = IF hc.started
             THEN [hc EXCEPT !.probe[b] = "sent"]
             ELSE [hc EXCEPT !.probe[b] = "done",
                             !.result[b] = check_service(FALSE, hc.fate[b]),
                             !.order = Append(@, b)]
    /\ UNCHANGED <<gwVars, connVars, turnVars, tl, seg, rejected, js, sse, cdb, storeVars>>

\* the request of a probe completes (response, error or timeout)
HealthProbeReply(b) ==
    /\ hc.pc = "gather" /\ hc.probe[b] = "sent"
    /\ hc' = [hc EXCEPT !.probe[b] = "done",
                        !.result[b] = check_service(TRUE, hc.fate[b]),
                        !.order = Append(@, b)]
    /\ UNCHANGED <<gwVars, connVars, turnVars, tl, seg, rejected, js, sse, cdb, storeVars>>

\* gather has all three results: the dict is returned
HealthGatherReturn ==
    /\ hc.pc = "gather"
    /\ \A b \in Backends : hc.probe[b] = "done"
    /\ hc' = [hc EXCEPT !.pc = "returned",
                        !.out = [b \in Backends |-> hc.result[b]]]
    /\ UNCHANGED <<gwVars, connVars, turnVars, tl, seg, rejected, js, sse, cdb, storeVars>>

NextHealth ==
    \/ \E b \in Backends : HealthProbeStart(b)
    \/ \E b \in Backends : HealthProbeReply(b)
    \/ HealthGatherReturn

SpecHealth == InitHealth /\ [][NextHealth]_vars

\* ------------------------------------------------------- run_tool_loop
\* the registry; the repository ships it empty, tools are added to it
\* json.loads accepts the payload
ValidJson(a) == a = "{}"

ToolNames == {"t1"}
CallNames == {"t1", "zz"}
\* the "arguments" string of a tool call, as produced by the language model
ArgPayloads == {"{}", "{bad"}
ToolCalls ==
    {tc \in [name : CallNames, arguments : ArgPayloads] :
        ValidJson(tc.arguments) \/ tc.name \in ToolNames}
ToolCallSeqs == UNION {[1 .. n -> ToolCalls] : n \in 0 .. MaxToolCalls}

Fallback == <<"I'm having trouble connecting to my brain. Please try again.">>

NoResponse == [none |-> TRUE, message |-> <<>>, conversation_id |-> NoneStr,
               tool_calls |-> <<>>]
ChatResponses ==
    {NoResponse} \cup
    [none : {FALSE}, message : {<<>>, <<"m">>}, conversation_id : {"c1", "c2"},
     tool_calls : ToolCallSeqs]

\* Tool.execute either returns text or raises
ExecOutcomes == [ok : BOOLEAN, text : {<<"r">>}]

\* get_tool_by_name
get_tool_by_name(name, registry) == name \in registry

\* "x or ''" for an optional string
\* (variant: the value is dropped and '' is used)
OrEmptyDropped(x) == ""
OrEmpty(x) == IF x = NoneStr THEN "" ELSE x

\* the text recorded for one tool call
ToolResult(tc, b, registry) ==
    IF get_tool_by_name(tc.name, registry)
    THEN IF b.ok THEN b.text
         ELSE <<"Error executing ", tc.name, ": ", "boom">>
    ELSE <<"Unknown tool: ", tc.name>>

Labeled(tc, b, registry) == <<"[", tc.name, "]: ">> \o ToolResult(tc, b, registry)

\* "\n".join(tool_results)
RECURSIVE JoinLines(_)
JoinLines(rs) ==
    IF rs = <<>> THEN <<>>
    ELSE IF Len(rs) = 1 THEN rs[1]
    ELSE rs[1] \o <<"\n">> \o JoinLines(Tail(rs))

\* (variant: only the result of the last tool call is sent back)
ToolMessageLastOnly(r, beh, registry) ==
    Labeled(r.tool_calls[Len(r.tool_calls)], beh[Len(r.tool_calls)], registry)
ToolMessage(r, beh, registry) ==
    JoinLines([k \in 1 .. Len(r.tool_calls) |->
                  Labeled(r.tool_calls[k], beh[k], registry)])

\* json.loads(fn.get("arguments", "{}")) raises on some tool call
ArgumentsRaise(r) ==
    \E k \in 1 .. Len(r.tool_calls) : ~ValidJson(r.tool_calls[k].arguments)

InitLoop ==
    /\ InitGw /\ InitConnIdle /\ InitAuxIdle
    /\ \E m \in 0 .. MaxIter, cid \in {NoneStr, "c0"}, reg \in SUBSET ToolNames :
          tl = [pc |-> "loop", max |-> m, i |-> 0, nchat |-> 0, conv |-> cid,
                message |-> <<"hi">>, last |-> NoResponse, registry |-> reg,
                out |-> [message |-> <<>>, conversation_id |-> NoneStr]]

\* one pass of "for i in range(max_iterations)": the chat call is made
LoopCalled == [tl EXCEPT !.nchat = @ + 1]

\* result is None: return the fallback
LoopChatNone ==
    /\ tl.pc = "loop" /\ tl.i < tl.max
    /\ tl' = [LoopCalled EXCEPT !.pc = "returned", !.last = NoResponse,
                 !.out = [message |-> Fallback,
                          conversation_id |-> OrEmpty(tl.conv)]]
    /\ UNCHANGED <<gwVars, connVars, turnVars, auxVars, storeVars>>

\* no tool calls: return the response
LoopChatFinal ==
    /\ tl.pc = "loop" /\ tl.i < tl.max
    /\ \E r \in ChatResponses :
          /\ ~r.none /\ r.tool_calls = <<>>
          /\ tl' = [LoopCalled EXCEPT !.pc = "returned", !.last = r,
                       !.conv = r.conversation_id,
                       !.out = [message |-> r.message,
                                conversation_id |-> r.conversation_id]]
    /\ UNCHANGED <<gwVars, connVars, turnVars, auxVars, storeVars>>

\* tool calls: execute each, build the next message, go round again
LoopChatTools ==
    /\ tl.pc = "loop" /\ tl.i < tl.max
    /\ \E r \in ChatResponses :
          /\ ~r.none /\ r.tool_calls # <<>>
          /\ ~ArgumentsRaise(r)
          /\ \E beh \in [1 .. Len(r.tool_calls) -> ExecOutcomes] :
             tl' = [LoopCalled EXCEPT !.last = r, !.conv = r.conversation_id,
                       !.i = @ + 1,
                       !.message = ToolMessage(r, beh, tl.registry)]
    /\ UNCHANGED <<gwVars, connVars, turnVars, auxVars, storeVars>>

\* tool calls, but json.loads raises on an arguments payload: the exception
\* is outside the try block and leaves run_tool_loop
LoopChatToolsRaise ==
    /\ tl.pc = "loop" /\ tl.i < tl.max
    /\ \E r \in ChatResponses :
          /\ ~r.none /\ r.tool_calls # <<>>
          /\ ArgumentsRaise(r)
          /\ tl' = [LoopCalled EXCEPT !.pc = "raised", !.last = r,
                       !.conv = r.conversation_id]
    /\ UNCHANGED <<gwVars, connVars, turnVars, auxVars, storeVars>>

\* (variant: at the iteration bound the fallback message is returned)
LoopExhaustedFallback ==
    /\ tl.pc = "loop" /\ tl.i >= tl.max
    /\ tl' = [tl EXCEPT !.pc = "returned",
                 !.out = [message |-> Fallback,
                          conversation_id |-> OrEmpty(tl.conv)]]
    /\ UNCHANGED <<gwVars, connVars, turnVars, auxVars, storeVars>>

\* the for loop is exhausted: return the last response's message; with
\* max_iterations = 0 the name "result" is unbound and the return raises
LoopExhausted ==
    /\ tl.pc = "loop" /\ tl.i >= tl.max
    /\ IF tl.max <= 0
       THEN tl' = [tl EXCEPT !.pc = "raised"]
       ELSE tl' = [tl EXCEPT !.pc = "returned",
                      !.out = [message |-> tl.last.message,
                               conversation_id |-> OrEmpty(tl.conv)]]
    /\ UNCHANGED <<gwVars, connVars, turnVars, auxVars, storeVars>>

NextLoop ==
    \/ LoopChatNone
    \/ LoopChatFinal
    \/ LoopChatTools
    \/ LoopChatToolsRaise
    \/ LoopExhausted

SpecLoop == InitLoop /\ [][NextLoop]_vars

\* --------------------------------------- conversation_ws: the connection
\* the asyncio task of the connection is one of the gateway's callers
SessionTask == CHOOSE c \in Callers : \A d \in Callers : c <= d

Absent == "Absent"
DefaultVoice == "default"
DefaultProvider == "ollama"
DefaultMode == "both"

\* dict.get(key, default)
Get(field, default) == IF field = Absent THEN default ELSE field

\* frames the server puts on the socket; "close" is websocket.close()
Frame(type, code, body) ==
    [type |-> type, code |-> code, body |-> body, sid |-> "", cid |-> ""]
ErrorFrame(code) == Frame("error", code, <<>>)
CloseFrame(code) == Frame("close", code, <<>>)
\* (variant: session.created goes out without its two identifiers)
CreatedFrameBare(sid, cid) ==
    [type |-> "session.created", code |-> "", body |-> <<>>, sid |-> "", cid |-> ""]
CreatedFrame(sid, cid) ==
    [type |-> "session.created", code |-> "", body |-> <<>>, sid |-> sid, cid |-> cid]

\* a gateway call as the connection makes it
Call(op, arg, cid, prov, voice) ==
    [op |-> op, arg |-> arg, cid |-> cid, provider |-> prov, voice |-> voice]

Up == ws = "open"
Shut(w) == IF w = "open" THEN "closed" ELSE w

\* inbound traffic
CtlTypes == {"session.start", "session.end", "audio.start", "audio.end",
             "text.send", "ping"}
KnownTypes == {"session.end", "audio.start", "audio.end", "text.send"}
AudioBytes == {"x", "y"}
UserTexts == {<<>>, <<" ">>, <<" ", "a">>}
StartMsgs ==
    { [mode |-> "text", voice_id |-> Absent, provider |-> Absent,
       conversation_id |-> Absent],
      [mode |-> "voice", voice_id |-> "v1", provider |-> "p1",
       conversation_id |-> "c0"],
      [mode |-> Absent, voice_id |-> Absent, provider |-> Absent,
       conversation_id |-> Absent] }
\* the conversation ids a client can name in session.start
ClientConvs == {"c0"}
ApiKeys == {NoneStr, "k"}
QueryTokens == {NoneStr, "k", "x"}
\* the token field of the session.start message
MsgTokens == {NoneStr, "k", "x"}

\* msg.get("type") != "session.start", negated
IsSessionStartAny(type) == TRUE
IsSessionStart(type) == type = "session.start"

\* validate_ws_token: no key configured, or the query parameter equals it
validate_ws_token(key, token) == key = NoneStr \/ token = key

\* "if not audio_buffer", negated
HasAudioAlways(buf) == TRUE
HasAudio(buf) == buf # <<>>

InitConn ==
    /\ service_client \in {"unset", "started"}
    /\ pc = "off" /\ ws = "none" /\ first = "none" /\ last = "none"
    /\ auth = "pending"
    /\ session_id = NoneStr /\ conversation_id = NoneStr
    /\ voice_id = NoneStr /\ provider = NoneStr /\ mode = NoneStr
    /\ audio_buffer = <<>> /\ sent = <<>> /\ calls = <<>>
    /\ req = "none" /\ created = 0
    /\ full_text = <<>> /\ sentences = <<>>
    /\ brain = BrainOff /\ events = <<>>
    /\ store \in SUBSET ClientConvs /\ bconv = NoneStr
    /\ rejected = NoCred

\* websocket.accept(); without a service client: error frame, close, return
Connect ==
    /\ pc = "off"
    /\ IF service_client = "unset"
       THEN /\ sent' = <<ErrorFrame("service_unavailable"), CloseFrame("1000")>>
            /\ pc' = "closed" /\ ws' = "closed"
            /\ UNCHANGED <<paramVars, audio_buffer>>
       ELSE /\ pc' = "await_start" /\ ws' = "open"
            /\ session_id' = "sid"
            /\ conversation_id' = NoneStr
            /\ voice_id' = DefaultVoice
            /\ provider' = DefaultProvider
            /\ mode' = DefaultMode
            /\ audio_buffer' = <<>>
            /\ UNCHANGED sent
    /\ UNCHANGED <<service_client, first, last, auth, calls, req, created>>
    /\ UNCHANGED <<gwVars, turnVars, tl, auxVars, storeVars>>

\* the peer goes away; the handler notices at its next receive or send
PeerDisconnect ==
    /\ Up /\ pc \notin {"off", "closed"}
    /\ ws' = "gone"
    /\ UNCHANGED <<service_client, pc, first, last, auth, paramVars, audio_buffer,
                   sent, calls, req, created>>
    /\ UNCHANGED <<gwVars, turnVars, tl, auxVars, storeVars>>

\* receive_text() raises WebSocketDisconnect: logged, handler returns
HandshakeDisconnected ==
    /\ pc = "await_start" /\ ws = "gone"
    /\ pc' = "closed"
    /\ UNCHANGED <<service_client, ws, first, last, auth, paramVars, audio_buffer,
                   sent, calls, req, created>>
    /\ UNCHANGED <<gwVars, turnVars, tl, auxVars, storeVars>>

\* the first frame is binary or is not JSON: the exception reaches the
\* top-level handler, which sends internal_error
HandshakeInvalid ==
    /\ pc = "await_start" /\ Up
    /\ first' = "invalid"
    /\ sent' = <<ErrorFrame("internal_error")>>
    /\ pc' = "closed" /\ ws' = "closed"
    /\ UNCHANGED <<service_client, auth, paramVars, audio_buffer, calls, req,
                   created>>
    /\ UNCHANGED last
    /\ UNCHANGED <<gwVars, turnVars, tl, auxVars, storeVars>>

\* the first message is not session.start: protocol_error, close, return
HandshakeNotStart ==
    /\ pc = "await_start" /\ Up
    /\ \E type \in CtlTypes :
          /\ ~IsSessionStart(type)
          /\ first' = type
    /\ sent' = <<ErrorFrame("protocol_error"), CloseFrame("1000")>>
    /\ pc' = "closed" /\ ws' = "closed"
    /\ UNCHANGED <<service_client, auth, paramVars, audio_buffer, calls, req,
                   created>>
    /\ UNCHANGED last
    /\ UNCHANGED <<gwVars, turnVars, tl, auxVars, storeVars>>

\* session.start, but validate_ws_token rejects the token: it closes the
\* socket with code 4001 and raises; the top-level handler's send_json then
\* raises on the closed socket and is swallowed
HandshakeAuthFail ==
    /\ pc = "await_start" /\ Up
    /\ \E type \in CtlTypes, key \in ApiKeys, token \in QueryTokens,
          mtoken \in MsgTokens :
          /\ IsSessionStart(type)
          /\ ~validate_ws_token(key, token)
          /\ first' = type
          /\ rejected' = [key |-> key, query |-> token, msg |-> mtoken]
    /\ auth' = "failed"
    /\ sent' = <<CloseFrame("4001")>>
    /\ pc' = "closed" /\ ws' = "closed"
    /\ UNCHANGED <<service_client, paramVars, audio_buffer, calls, req, created>>
    /\ UNCHANGED last
    /\ UNCHANGED <<gwVars, turnVars, tl, hc, seg, js, sse, cdb, storeVars>>

\* session.start accepted: take the parameters, send session.created
HandshakeOk ==
    /\ pc = "await_start" /\ Up
    /\ \E type \in CtlTypes, key \in ApiKeys, token \in QueryTokens, m \in StartMsgs :
          /\ IsSessionStart(type)
          /\ validate_ws_token(key, token)
          /\ first' = type
          /\ voice_id' = Get(m.voice_id, voice_id)
          /\ provider' = Get(m.provider, provider)
          /\ mode' = Get(m.mode, mode)
          /\ conversation_id' = Get(m.conversation_id, NoneStr)
          /\ sent' = <<CreatedFrame(session_id, OrEmpty(Get(m.conversation_id, NoneStr)))>>
    /\ auth' = "ok"
    /\ created' = created + 1
    /\ pc' = "recv"
    /\ UNCHANGED <<service_client, ws, session_id, audio_buffer, calls, req>>
    /\ UNCHANGED last
    /\ UNCHANGED <<gwVars, turnVars, tl, auxVars, storeVars>>

\* ---- the main loop: one action per branch taken on a received message
\* the peer has gone: receive() reports the disconnect, which the loop skips,
\* and the next receive() raises; the error frame cannot be delivered
RecvDisconnected ==
    /\ pc = "recv" /\ ws = "gone"
    /\ pc' = "closed"
    /\ sent' = <<>> /\ calls' = <<>> /\ req' = "none"
    /\ UNCHANGED <<service_client, ws, first, auth, paramVars, audio_buffer, created>>
    /\ events' = <<>>
    /\ UNCHANGED <<full_text, sentences, brain, gwVars, tl, auxVars, storeVars>>
    /\ last' = "disconnect"

\* (variant: a reader task takes binary frames off the socket at any time)
RecvBytesAnytime ==
    /\ pc \in {"recv", "stt", "stream", "tts"} /\ Up
    /\ Len(audio_buffer) < MaxBuf
    /\ \E b \in AudioBytes : audio_buffer' = Append(audio_buffer, b)
    /\ UNCHANGED <<sent, calls, req>>
    /\ UNCHANGED <<service_client, pc, ws, first, auth, paramVars, created>>
    /\ UNCHANGED events
    /\ UNCHANGED <<full_text, sentences, brain, gwVars, tl, auxVars, storeVars>>
    /\ last' = "bytes"

\* binary frame: audio_buffer.extend(message["bytes"])
RecvBytes ==
    /\ pc = "recv" /\ Up
    /\ Len(audio_buffer) < MaxBuf
    /\ \E b \in AudioBytes : audio_buffer' = Append(audio_buffer, b)
    /\ sent' = <<>> /\ calls' = <<>> /\ req' = "none"
    /\ UNCHANGED <<service_client, pc, ws, first, auth, paramVars, created>>
    /\ events' = <<>>
    /\ UNCHANGED <<full_text, sentences, brain, gwVars, tl, auxVars, storeVars>>
    /\ last' = "bytes"

\* (variant: the decoding error is answered inside the loop, which goes on)
RecvInvalidJsonStays ==
    /\ pc = "recv" /\ Up
    /\ sent' = <<ErrorFrame("internal_error")>>
    /\ calls' = <<>> /\ req' = "none"
    /\ UNCHANGED <<service_client, pc, ws, first, auth, paramVars, audio_buffer,
                   created>>
    /\ events' = <<>>
    /\ UNCHANGED <<full_text, sentences, brain, gwVars, tl, auxVars, storeVars>>
    /\ last' = "invalid"

\* text frame that is not JSON: json.loads raises, internal_error is sent
RecvInvalidJson ==
    /\ pc = "recv" /\ Up
    /\ sent' = <<ErrorFrame("internal_error")>>
    /\ calls' = <<>> /\ req' = "none"
    /\ pc' = "closed" /\ ws' = "closed"
    /\ UNCHANGED <<service_client, first, auth, paramVars, audio_buffer, created>>
    /\ events' = <<>>
    /\ UNCHANGED <<full_text, sentences, brain, gwVars, tl, auxVars, storeVars>>
    /\ last' = "invalid"

\* (variant: session.end is skipped with "continue")
RecvSessionEndContinues ==
    /\ pc = "recv" /\ Up
    /\ sent' = <<>> /\ calls' = <<>> /\ req' = "none"
    /\ UNCHANGED <<service_client, pc, ws, first, auth, paramVars, audio_buffer,
                   created>>
    /\ events' = <<>>
    /\ UNCHANGED <<full_text, sentences, brain, gwVars, tl, auxVars, storeVars>>
    /\ last' = "session.end"

\* session.end: break
RecvSessionEnd ==
    /\ pc = "recv" /\ Up
    /\ sent' = <<>> /\ calls' = <<>> /\ req' = "none"
    /\ pc' = "closed" /\ ws' = "closed"
    /\ UNCHANGED <<service_client, first, auth, paramVars, audio_buffer, created>>
    /\ events' = <<>>
    /\ UNCHANGED <<full_text, sentences, brain, gwVars, tl, auxVars, storeVars>>
    /\ last' = "session.end"

\* (variant: audio.start leaves the buffer as it is)
RecvAudioStartKeeps ==
    /\ pc = "recv" /\ Up
    /\ sent' = <<>> /\ calls' = <<>> /\ req' = "none"
    /\ UNCHANGED <<service_client, pc, ws, first, auth, paramVars, created,
                   audio_buffer>>
    /\ events' = <<>>
    /\ UNCHANGED <<full_text, sentences, brain, gwVars, tl, auxVars, storeVars>>
    /\ last' = "audio.start"

\* audio.start: audio_buffer = bytearray()
RecvAudioStart ==
    /\ pc = "recv" /\ Up
    /\ audio_buffer' = <<>>
    /\ sent' = <<>> /\ calls' = <<>> /\ req' = "none"
    /\ UNCHANGED <<service_client, pc, ws, first, auth, paramVars, created>>
    /\ events' = <<>>
    /\ UNCHANGED <<full_text, sentences, brain, gwVars, tl, auxVars, storeVars>>
    /\ last' = "audio.start"

\* (variant: a session.start in the main loop is handled like the first one)
RecvIgnoredRenegotiates ==
    /\ pc = "recv" /\ Up
    /\ \E type \in CtlTypes \ KnownTypes, m \in StartMsgs :
          /\ last' = type
          /\ mode' = Get(m.mode, DefaultMode)
          /\ voice_id' = Get(m.voice_id, DefaultVoice)
          /\ provider' = Get(m.provider, DefaultProvider)
    /\ sent' = <<CreatedFrame(session_id, OrEmpty(conversation_id))>>
    /\ created' = created
    /\ calls' = <<>> /\ req' = "none"
    /\ UNCHANGED <<service_client, pc, ws, first, auth, session_id, conversation_id,
                   audio_buffer>>
    /\ events' = <<>>
    /\ UNCHANGED <<full_text, sentences, brain, gwVars, tl, auxVars, storeVars>>

\* (variant: a final else branch answers with an error frame)
RecvIgnoredAnswered ==
    /\ pc = "recv" /\ Up
    /\ \E type \in CtlTypes \ KnownTypes : last' = type
    /\ sent' = <<ErrorFrame("protocol_error")>> /\ calls' = <<>> /\ req' = "none"
    /\ UNCHANGED <<service_client, pc, ws, first, auth, paramVars, audio_buffer,
                   created>>
    /\ events' = <<>>
    /\ UNCHANGED <<full_text, sentences, brain, gwVars, tl, auxVars, storeVars>>

\* a type none of the elif branches matches (a second session.start included)
RecvIgnored ==
    /\ pc = "recv" /\ Up
    /\ \E type \in CtlTypes \ KnownTypes : last' = type
    /\ sent' = <<>> /\ calls' = <<>> /\ req' = "none"
    /\ UNCHANGED <<service_client, pc, ws, first, auth, paramVars, audio_buffer,
                   created>>
    /\ events' = <<>>
    /\ UNCHANGED <<full_text, sentences, brain, gwVars, tl, auxVars, storeVars>>

\* audio.end with nothing buffered: no_audio, continue
RecvAudioEndEmpty ==
    /\ pc = "recv" /\ Up
    /\ ~HasAudio(audio_buffer)
    /\ sent' = <<ErrorFrame("no_audio")>>
    /\ calls' = <<>> /\ req' = "none"
    /\ UNCHANGED <<service_client, pc, ws, first, auth, paramVars, audio_buffer,
                   created>>
    /\ events' = <<>>
    /\ UNCHANGED <<full_text, sentences, brain, gwVars, tl, auxVars, storeVars>>
    /\ last' = "audio.end"

\* audio.end with audio: client.transcribe(bytes(audio_buffer))
RecvAudioEnd ==
    /\ pc = "recv" /\ Up
    /\ HasAudio(audio_buffer)
    /\ sent' = <<>>
    /\ calls' = <<Call("transcribe", audio_buffer, "", "", "")>>
    /\ req' = IF audio_buffer # <<>> THEN "audio" ELSE "none"
    /\ GwEnter(SessionTask, "transcribe")
    /\ pc' = "stt"
    /\ UNCHANGED <<service_client, ws, first, auth, paramVars, audio_buffer, created>>
    /\ events' = <<>>
    /\ UNCHANGED <<full_text, sentences, brain, stt_sem, tts_sem, tl, auxVars, storeVars>>
    /\ last' = "audio.end"

\* ------------------------------------------------------ split_sentences
\* first index >= i of t that is not whitespace (Len(t) + 1 when none)
RECURSIVE SkipSpace(_, _)
SkipSpace(t, i) ==
    IF i <= Len(t) /\ t[i] \in Whitespace THEN SkipSpace(t, i + 1) ELSE i

\* _SENTENCE_RE.split(text): cut at each whitespace run that follows . ! or ?
RECURSIVE ReSplit(_, _, _)
ReSplit(t, i, cur) ==
    IF i > Len(t) THEN <<cur>>
    ELSE IF t[i] \in Whitespace /\ i > 1 /\ t[i - 1] \in Punct
         THEN <<cur>> \o ReSplit(t, SkipSpace(t, i), <<>>)
         ELSE ReSplit(t, i + 1, Append(cur, t[i]))

\* "[s.strip() for s in sentences if s.strip()]"
RECURSIVE StripAll(_)
StripAll(ps) ==
    IF ps = <<>> THEN <<>>
    ELSE IF Strip(Head(ps)) = <<>> THEN StripAll(Tail(ps))
    ELSE <<Strip(Head(ps))>> \o StripAll(Tail(ps))

\* (variant: the text is trimmed but never cut)
split_sentences_uncut(t) == StripAll(<<t>>)
split_sentences(t) == StripAll(ReSplit(t, 1, <<>>))

\* split_sentences called on its own, for every text of up to MaxText
\* characters over a letter, two terminators and two kinds of whitespace
SegChars == {"a", ".", "?", " ", "\n"}
SegTexts == UNION {[1 .. k -> SegChars] : k \in 0 .. MaxText}

InitSplit ==
    /\ InitGw /\ InitConnIdle /\ InitLoopIdle /\ InitHealthIdle /\ InitStoreIdle /\ InitSseIdle
    /\ InitChatIdle
    /\ \E t \in SegTexts : seg = [pc |-> "call", text |-> t, out |-> <<>>]

SplitReturn ==
    /\ seg.pc = "call"
    /\ seg' = [seg EXCEPT !.pc = "out", !.out = split_sentences(seg.text)]
    /\ UNCHANGED <<gwVars, connVars, turnVars, tl, hc, rejected, js, sse, cdb, storeVars>>

NextSplit == SplitReturn

SpecSplit == InitSplit /\ [][NextSplit]_vars

\* ------------------------------------------- the todo app's JsonStore
\* Only the "todos" list is modelled; "notes" and "work_items" go through
\* the same code with other type names.  An item is its id and a revision that
\* stands for the rest of its fields.
\* an id a client puts in the body of an update
ClientId == "x"
Item(id, rev) == [id |-> id, rev |-> rev]

\* a file: absent, unparsable, or the JSON of a state
Missing == [kind |-> "missing", todos |-> <<>>]
Broken == [kind |-> "broken", todos |-> <<>>]
Json(st) == [kind |-> "ok", todos |-> st]

\* _apply_wal_entry: a create appends, an update replaces every item that has
\* the id, a delete removes every item that has the id
_apply_wal_entry(st, e) ==
    CASE e.type = "todo_create" -> Append(st, e.data)
      [] e.type = "todo_update" ->
            [i \in DOMAIN st |-> IF st[i].id = e.id THEN e.data ELSE st[i]]
      [] e.type = "todo_delete" ->
            LET Keep(it) == it.id # e.id IN SelectSeq(st, Keep)
      [] OTHER -> st

RECURSIVE ReplayFrom(_, _, _)
ReplayFrom(st, wal, k) ==
    IF k > Len(wal) THEN st
    ELSE ReplayFrom(_apply_wal_entry(st, wal[k]), wal, k + 1)

\* _replay_wal: nothing without a configured WAL file
_replay_wal(st, wal_file, wal) ==
    IF ~wal_file THEN st ELSE ReplayFrom(st, wal, 1)

\* _append_wal: nothing without a configured WAL file
_append_wal(wal_file, wal, e) ==
    IF ~wal_file THEN wal ELSE Append(wal, e)

\* the files bak.1 .. bak.N exist at most; with N = 0 bak.1 is still written
BakLen(n) == IF n = 0 THEN 1 ELSE n

\* _rotate_backups: bak.N is removed, bak.i becomes bak.i+1, and the data
\* file, if there is one, is copied to bak.1
_rotate_backups(baks, data, n) ==
    [i \in 1..BakLen(n) |->
        IF i = 1
        THEN IF data.kind # "missing" THEN data
             ELSE IF n = 0 THEN baks[1] ELSE Missing
        ELSE baks[i - 1]]

\* the first backup, in the order bak.1 .. bak.N, that parses; 0 if none
RECURSIVE FirstGoodBackup(_, _, _)
FirstGoodBackup(baks, n, i) ==
    IF i > n THEN 0
    ELSE IF baks[i].kind = "ok" THEN i
    ELSE FirstGoodBackup(baks, n, i + 1)

\* load_or_recover: the state it leaves in memory
Recovered(f) ==
    IF f.data.kind = "ok" THEN f.data.todos
    ELSE LET b == FirstGoodBackup(f.baks, f.backups, 1)
             base == IF b = 0 THEN <<>> ELSE f.baks[b].todos
         IN  _replay_wal(base, f.wal_file, f.wal)

\* _flush: rotate the backups, then replace the data file
_flush(f, st) ==
    [f EXCEPT !.baks = _rotate_backups(f.baks, f.data, f.backups),
              !.data = Json(st)]

IdsOf(st) == {st[i].id : i \in DOMAIN st}
FirstIndex(st, id) == CHOOSE i \in DOMAIN st :
    st[i].id = id /\ \A j \in 1..(i - 1) : st[j].id # id

NoState == <<Item(NoneStr, 0)>>

InitStore ==
    /\ InitGw /\ InitConnIdle /\ InitLoopIdle /\ InitHealthIdle /\ InitSegIdle /\ InitSseIdle
    /\ InitChatIdle
    /\ \E w \in BOOLEAN, n \in 0..MaxBackups :
          js = [pc |-> "down", wal_file |-> w, backups |-> n,
                state |-> <<>>, data |-> Missing,
                baks |-> [i \in 1..BakLen(n) |-> Missing],
                wal |-> <<>>, ops |-> 0, before |-> NoState, last |-> "none"]

StoreUnchanged == UNCHANGED <<gwVars, connVars, turnVars, tl, hc, seg, rejected, sse, cdb,
                              storeVars>>

\* create_app: JsonStore(...) and load_or_recover()
StoreOpen ==
    /\ js.pc = "down"
    /\ LET st == Recovered(js)
           f == IF js.data.kind = "ok" THEN js ELSE _flush(js, st)
       IN  js' = [f EXCEPT !.pc = "up", !.state = st,
                           !.last = IF js.data.kind = "ok" THEN "load" ELSE "recover"]
    /\ StoreUnchanged

\* create_todo: _new_id is a fresh uuid
StoreCreate ==
    /\ js.pc = "up" /\ js.ops < MaxOps
    /\ LET item == Item("t" \o ToString(js.ops + 1), js.ops + 1)
           st == Append(js.state, item)
           w == _append_wal(js.wal_file, js.wal, [type |-> "todo_create", id |-> item.id, data |-> item])
       IN  js' = [_flush([js EXCEPT !.wal = w], st) EXCEPT
                     !.state = st, !.ops = js.ops + 1, !.last = "create",
                     !.before = NoState]
    /\ StoreUnchanged

\* update_todo: the first item with the id is merged with the request's
\* fields, which may include "id"
StoreUpdate ==
    /\ js.pc = "up" /\ js.ops < MaxOps
    /\ \E tid \in IdsOf(js.state), newid \in {NoneStr} \cup IdsOf(js.state) \cup {ClientId} :
          LET idx == FirstIndex(js.state, tid)
              merged == Item(IF newid = NoneStr THEN tid ELSE newid, js.ops + 1)
              st == [js.state EXCEPT ![idx] = merged]
              w == _append_wal(js.wal_file, js.wal, [type |-> "todo_update", id |-> tid, data |-> merged])
          IN  js' = [_flush([js EXCEPT !.wal = w], st) EXCEPT
                        !.state = st, !.ops = js.ops + 1, !.last = "update",
                        !.before = NoState]
    /\ StoreUnchanged

\* delete_todo: every item with the id goes
StoreDelete ==
    /\ js.pc = "up" /\ js.ops < MaxOps
    /\ \E tid \in IdsOf(js.state) :
          LET Keep(it) == it.id # tid
              st == SelectSeq(js.state, Keep)
              w == _append_wal(js.wal_file, js.wal, [type |-> "todo_delete", id |-> tid, data |-> Item(tid, 0)])
          IN  js' = [_flush([js EXCEPT !.wal = w], st) EXCEPT
                        !.state = st, !.ops = js.ops + 1, !.last = "delete",
                        !.before = NoState]
    /\ StoreUnchanged

\* the process ends with its files intact
StoreStop ==
    /\ js.pc = "up"
    /\ js' = [js EXCEPT !.pc = "down", !.state = <<>>, !.last = "stop", !.before = NoState]
    /\ StoreUnchanged

\* the data file is overwritten with something that is not JSON and the
\* process ends
StoreCorrupt ==
    /\ js.pc = "up"
    /\ js' = [js EXCEPT !.pc = "down", !.data = Broken, !.before = js.state,
                        !.state = <<>>, !.last = "corrupt"]
    /\ StoreUnchanged

NextStore ==
    \/ StoreOpen
    \/ StoreCreate
    \/ StoreUpdate
    \/ StoreDelete
    \/ StoreStop
    \/ StoreCorrupt

SpecStore == InitStore /\ [][NextStore]_vars

\* ------------------------------------- the Brain's chat_stream.generate
\* content of the chunks the language model streams; an empty delta is
\* skipped by "if delta.content"
Deltas == {<<"a", ".", " ">>, <<"b">>}

\* full_text += delta.content
BrainAccumulateLast(full, d) == d
BrainAccumulate(full, d) == full \o d

\* one line of the response body as aiter_lines() yields it
DataLine(ev) == [data |-> TRUE, json |-> TRUE, event |-> ev]
BlankLine == [data |-> FALSE, json |-> FALSE,
              event |-> [type |-> "", content |-> <<>>, conversation_id |-> NoneStr]]
TokenEvent(d, cid) == [type |-> "token", content |-> d, conversation_id |-> cid]
DoneEvent(full, cid) == [type |-> "done", content |-> full, conversation_id |-> cid]
ErrorEvent == [type |-> "error", content |-> <<>>, conversation_id |-> NoneStr]

\* ConversationStore.create: "cid = conversation_id or str(uuid.uuid4())";
\* the n-th generated id stands for a uuid, different from every other id
Uuid(n) == "u" \o ToString(n)
Generated(st) == st \ ClientConvs
\* chat_stream of the Brain: an id that exists is used; a missing id is
\* created under its own name; no id gives a new conversation
GetOrCreate(cid, st) ==
    IF cid # NoneStr THEN cid ELSE Uuid(Cardinality(Generated(st)) + 1)

\* each yield of generate() is "data: <json>\n\n": a data line and a blank one
BrainChunk(ev) == <<DataLine(ev), BlankLine>>

\* ServiceClient.chat_stream: lines that start with "data: " and parse as
\* JSON are yielded, every other line is skipped
RECURSIVE Yielded(_)
Yielded(lines) ==
    IF lines = <<>> THEN <<>>
    ELSE IF Head(lines).data /\ Head(lines).json
         THEN <<Head(lines).event>> \o Yielded(Tail(lines))
         ELSE Yielded(Tail(lines))

\* ---- ServiceClient.chat_stream reading one response body
\* a line "data: " followed by text that is not JSON
MalformedLine == [data |-> TRUE, json |-> FALSE,
                  event |-> [type |-> "", content |-> <<>>, conversation_id |-> NoneStr]]
\* a line of JSON without the "data: " prefix
BareJsonLine == [data |-> FALSE, json |-> TRUE, event |-> TokenEvent(<<"b">>, "c0")]
SseLines ==
    {DataLine(TokenEvent(<<"a">>, "c0")), DataLine(TokenEvent(<<"b">>, "c0")),
     DataLine(DoneEvent(<<"a", "b">>, "c0")), MalformedLine, BareJsonLine, BlankLine}
SseBodies == UNION {[1 .. n -> SseLines] : n \in 0 .. MaxLines}

InitSse ==
    /\ InitGw /\ InitConnIdle /\ InitLoopIdle /\ InitHealthIdle /\ InitSegIdle
    /\ InitStoreIdle /\ InitChatIdle
    /\ \E body \in SseBodies :
          sse = [pc |-> "reading", lines |-> body, n |-> 0, out |-> <<>>,
                 failed |-> FALSE]

SseUnchanged ==
    UNCHANGED <<gwVars, connVars, turnVars, tl, hc, seg, rejected, js, cdb, storeVars>>

\* (variant: a line that does not parse ends the loop)
SseLineBreaks ==
    /\ sse.pc = "reading" /\ sse.n < Len(sse.lines)
    /\ LET line == sse.lines[sse.n + 1] IN
       sse' = [sse EXCEPT !.n = @ + 1, !.out = @ \o Yielded(<<line>>),
                          !.pc = IF line.data /\ ~line.json THEN "done" ELSE @]
    /\ SseUnchanged

\* one pass of "async for line in resp.aiter_lines()"
SseLine ==
    /\ sse.pc = "reading" /\ sse.n < Len(sse.lines)
    /\ sse' = [sse EXCEPT !.n = @ + 1,
                          !.out = @ \o Yielded(<<sse.lines[sse.n + 1]>>)]
    /\ SseUnchanged

\* the body ends: the generator is exhausted
SseEnd ==
    /\ sse.pc = "reading" /\ sse.n = Len(sse.lines)
    /\ sse' = [sse EXCEPT !.pc = "done"]
    /\ SseUnchanged

\* the transport fails while the body is read: the except clause yields an
\* error event and the generator ends
SseTransportFail ==
    /\ sse.pc = "reading"
    /\ sse' = [sse EXCEPT !.pc = "done", !.failed = TRUE,
                          !.out = Append(@, ErrorEvent)]
    /\ SseUnchanged

NextSse == SseLine \/ SseEnd \/ SseTransportFail

SpecSse == InitSse /\ [][NextSse]_vars

\* ---- the Brain's chat and chat_stream handlers on one ConversationStore
\* two requests are served by one event loop: every await of a handler is a
\* point where the other handler may run
ChatRequests == {1, 2}
ChatIds == {NoneStr, "c1", "c2"}
ChatKinds == {"chat", "stream"}
\* a row of the messages table; the sequence of rows is in order of the
\* autoincremented id
Row(cid, role, content) == [conversation_id |-> cid, role |-> role, content |-> content]
SystemPrompt == [role |-> "system", content |-> "prompt"]
StoredBefore == <<Row("c1", "user", "m0"), Row("c1", "assistant", "a0")>>

\* ConversationStore.get_history: "WHERE conversation_id = ? ORDER BY id"
get_history(rows, cid) ==
    LET mine == SelectSeq(rows, LAMBDA m : m.conversation_id = cid)
    IN [i \in 1 .. Len(mine) |-> [role |-> mine[i].role, content |-> mine[i].content]]

InitChat ==
    /\ InitGw /\ InitConnIdle /\ InitLoopIdle /\ InitHealthIdle /\ InitSegIdle
    /\ InitStoreIdle /\ InitSseIdle
    /\ \E old \in BOOLEAN, ids \in [ChatRequests -> ChatIds],
          kinds \in [ChatRequests -> ChatKinds] :
          cdb = [pc |-> "serving",
                 initial |-> IF old THEN {"c1"} ELSE {},
                 conversations |-> IF old THEN {"c1"} ELSE {},
                 messages |-> IF old THEN StoredBefore ELSE <<>>,
                 r |-> [q \in ChatRequests |->
                          [pc |-> "start", kind |-> kinds[q],
                           conversation_id |-> ids[q], found |-> FALSE,
                           conv_id |-> NoneStr, messages |-> <<>>]]]

ChatUnchanged ==
    UNCHANGED <<gwVars, connVars, turnVars, tl, hc, seg, rejected, js, sse, storeVars>>

\* "if conv_id and await store.exists(conv_id)"
ChatExists(q) ==
    /\ cdb.pc = "serving" /\ cdb.r[q].pc = "start"
    /\ LET cid == cdb.r[q].conversation_id IN
       cdb' = [cdb EXCEPT !.r[q].pc = "checked",
                          !.r[q].found = cid # NoneStr /\ cid \in cdb.conversations]
    /\ ChatUnchanged

\* "messages = await store.get_history(conv_id)"
ChatGetHistory(q) ==
    /\ cdb.pc = "serving" /\ cdb.r[q].pc = "checked" /\ cdb.r[q].found
    /\ LET cid == cdb.r[q].conversation_id IN
       cdb' = [cdb EXCEPT !.r[q].pc = "have", !.r[q].conv_id = cid,
                          !.r[q].messages = get_history(cdb.messages, cid)]
    /\ ChatUnchanged

\* "conv_id = await store.create(conv_id)": the INSERT into conversations,
\* whose id column is the primary key; a second row with the id is refused
\* and the exception leaves the handler
ChatCreate(q) ==
    /\ cdb.pc = "serving" /\ cdb.r[q].pc = "checked" /\ ~cdb.r[q].found
    /\ LET given == cdb.r[q].conversation_id
           cid == IF given # NoneStr THEN given
                  ELSE Uuid(Cardinality(cdb.conversations \ ChatIds) + 1)
       IN IF cid \in cdb.conversations
          THEN cdb' = [cdb EXCEPT !.r[q].pc = "integrity_error"]
          ELSE cdb' = [cdb EXCEPT !.conversations = @ \cup {cid},
                                  !.r[q].pc = "have", !.r[q].conv_id = cid,
                                  !.r[q].messages = <<>>]
    /\ ChatUnchanged

\* the system prompt is put first unless the history starts with one, the
\* user message is added and "await store.append(conv_id, "user", ...)"
ChatAppendUser(q) ==
    /\ cdb.pc = "serving" /\ cdb.r[q].pc = "have"
    /\ LET h == cdb.r[q].messages
           user == [role |-> "user", content |-> "m" \o ToString(q)]
           withPrompt == IF h = <<>> \/ h[1].role # "system"
                         THEN <<SystemPrompt>> \o h ELSE h
       IN cdb' = [cdb EXCEPT !.r[q].pc = "llm",
                             !.r[q].messages = Append(withPrompt, user),
                             !.messages = Append(@, Row(cdb.r[q].conv_id, "user",
                                                        user.content))]
    /\ ChatUnchanged

\* litellm.acompletion answers (for chat_stream: the chunks have been
\* yielded): "await store.append(conv_id, "assistant", ...)"
ChatAppendAssistant(q) ==
    /\ cdb.pc = "serving" /\ cdb.r[q].pc = "llm"
    /\ cdb' = [cdb EXCEPT !.r[q].pc = "done",
                          !.messages = Append(@, Row(cdb.r[q].conv_id, "assistant",
                                                     "a" \o ToString(q)))]
    /\ ChatUnchanged

\* litellm.acompletion raises: chat answers 502, generate() yields an error
\* event; nothing is stored for the assistant
ChatLlmError(q) ==
    /\ cdb.pc = "serving" /\ cdb.r[q].pc = "llm"
    /\ cdb' = [cdb EXCEPT !.r[q].pc = "llm_error"]
    /\ ChatUnchanged

NextChat ==
    \E q \in ChatRequests :
       \/ ChatExists(q)
       \/ ChatGetHistory(q)
       \/ ChatCreate(q)
       \/ ChatAppendUser(q)
       \/ ChatAppendAssistant(q)
       \/ ChatLlmError(q)

SpecChat == InitChat /\ [][NextChat]_vars

\* ------------------------------------------------ _process_and_respond
TextFrame(content) == Frame("response.text", "", content)
BinaryFrame(audio) == Frame("binary", "", audio)
EndFrame(full) == Frame("response.end", "", full)

\* "await websocket.send_json(...)": the frame goes out after those already
\* sent
\* (variant: the frame overtakes the frames already sent)
SendFrameFirst(fs, f) == <<f>> \o fs
SendFrame(fs, f) == Append(fs, f)

\* "if mode != 'text' and full_text.strip()"
ShouldSynthesizeAnyMode(m, t) == Strip(t) # <<>>
ShouldSynthesize(m, t) == m # "text" /\ Strip(t) # <<>>

\* "if audio": None and empty bytes are both falsy
\* (variant: "if audio is not None")
TruthyNotNone(res) == ~res.none
Truthy(res) == ~res.none /\ res.val # <<>>

\* entering _process_and_respond: chat_stream is called
BeginTurn(message) ==
    /\ full_text' = <<>>
    /\ sentences' = <<>>
    /\ events' = <<>>
    /\ brain' = [phase |-> "connecting", n |-> 0, full |-> <<>>, conv |-> NoneStr]
    /\ pc' = "stream"

\* text.send: blank text is dropped, anything else starts a turn
RecvTextSend ==
    /\ pc = "recv" /\ Up
    /\ \E text \in UserTexts :
          LET user_text == Strip(text) IN
          IF user_text = <<>>
          THEN /\ calls' = <<>> /\ req' = "none"
               /\ events' = <<>>
               /\ UNCHANGED <<pc, full_text, sentences, brain>>
          ELSE /\ calls' = <<Call("chat_stream", user_text, conversation_id,
                                  provider, "")>>
               /\ req' = "text"
               /\ BeginTurn(user_text)
    /\ sent' = <<>>
    /\ UNCHANGED <<service_client, ws, first, auth, paramVars, audio_buffer, created>>
    /\ UNCHANGED <<gwVars, tl, auxVars, storeVars>>
    /\ last' = "text.send"

\* transcribe returned: clear the buffer; None gives stt_unavailable,
\* otherwise transcription.final is sent and non-blank text starts a turn
AfterTranscribe ==
    /\ pc = "stt" /\ gw[SessionTask].phase = "ret"
    /\ gw' = [gw EXCEPT ![SessionTask] = GwIdle]
    /\ audio_buffer' = <<>>
    /\ LET res == gw[SessionTask].res
           user_text == res.val
       IN IF ~Up
          THEN /\ pc' = "closed"
               /\ UNCHANGED <<sent, calls, turnVars>>
          ELSE IF res.none
          THEN /\ sent' = Append(sent, ErrorFrame("stt_unavailable"))
               /\ pc' = "recv"
               /\ UNCHANGED <<calls, turnVars>>
          ELSE /\ sent' = Append(sent, Frame("transcription.final", "", user_text))
               /\ IF Strip(user_text) = <<>>
                  THEN pc' = "recv" /\ UNCHANGED <<calls, turnVars>>
                  ELSE /\ calls' = Append(calls, Call("chat_stream", user_text,
                                              conversation_id, provider, ""))
                       /\ BeginTurn(user_text)
    /\ UNCHANGED <<service_client, ws, first, last, auth, paramVars, req, created>>
    /\ UNCHANGED <<stt_sem, tts_sem, tl, auxVars, storeVars>>

\* (variant: the error branch lacks its return and falls through to the
\* response.end at the end of the function)
OnErrorEventNoReturn ==
    /\ events' = Append(events, ErrorEvent)
    /\ brain' = BrainOff
    /\ sent' = IF Up THEN sent \o <<ErrorFrame("brain_error"), EndFrame(full_text)>>
                ELSE sent
    /\ pc' = IF Up THEN "recv" ELSE "closed"
    /\ UNCHANGED <<full_text, sentences>>
    /\ UNCHANGED <<service_client, ws, first, last, auth, paramVars, audio_buffer,
                   calls, req, created>>
    /\ UNCHANGED <<gwVars, tl, auxVars, storeVars>>

\* (variant: the error branch returns without sending the error frame)
OnErrorEventSilent ==
    /\ events' = Append(events, ErrorEvent)
    /\ brain' = BrainOff
    /\ pc' = IF Up THEN "recv" ELSE "closed"
    /\ UNCHANGED <<full_text, sentences>>
    /\ UNCHANGED <<service_client, ws, first, last, auth, paramVars, audio_buffer,
                   sent, calls, req, created>>
    /\ UNCHANGED <<gwVars, tl, auxVars, storeVars>>

\* the consumer receives an error event: brain_error frame, return
OnErrorEvent ==
    /\ events' = Append(events, ErrorEvent)
    /\ brain' = BrainOff
    /\ sent' = IF Up THEN Append(sent, ErrorFrame("brain_error")) ELSE sent
    /\ pc' = IF Up THEN "recv" ELSE "closed"
    /\ UNCHANGED <<full_text, sentences>>
    /\ UNCHANGED <<service_client, ws, first, last, auth, paramVars, audio_buffer,
                   calls, req, created>>
    /\ UNCHANGED <<gwVars, tl, auxVars, storeVars>>

\* the request fails before any line arrives (client not started, connect
\* error, timeout, non-2xx status): chat_stream yields its error event
StreamOpenFail ==
    /\ pc = "stream" /\ brain.phase = "connecting"
    /\ OnErrorEvent

\* the Brain accepted the request: it finds or creates the conversation
\* for the conversation_id of the request and starts generate()
StreamOpen ==
    /\ pc = "stream" /\ brain.phase = "connecting"
    /\ LET cid == calls[Len(calls)].cid
           conv == GetOrCreate(cid, store)
       IN /\ cid = NoneStr => Cardinality(Generated(store)) < MaxConvs
          /\ store' = store \cup {conv}
          /\ brain' = [brain EXCEPT !.phase = "llm", !.conv = conv]
    /\ UNCHANGED <<full_text, sentences, events, bconv>>
    /\ UNCHANGED <<connVars, gwVars, tl, auxVars>>

\* the model streams a chunk without content: generate() yields nothing
StreamEmptyDelta ==
    /\ pc = "stream" /\ brain.phase = "llm" /\ brain.n < MaxDeltas
    /\ brain' = [brain EXCEPT !.n = @ + 1]
    /\ UNCHANGED <<full_text, sentences, events>>
    /\ UNCHANGED <<connVars, gwVars, tl, auxVars, storeVars>>

\* a token: generate() accumulates and yields it, chat_stream yields the
\* decoded event, the consumer accumulates it and sends response.text
StreamToken ==
    /\ pc = "stream" /\ brain.phase = "llm" /\ brain.n < MaxDeltas
    /\ \E d \in Deltas :
          LET evs == Yielded(BrainChunk(TokenEvent(d, brain.conv)))
              content == evs[1].content
          IN /\ brain' = [brain EXCEPT !.n = @ + 1,
                                       !.full = BrainAccumulate(brain.full, d)]
             /\ events' = events \o evs
             /\ full_text' = full_text \o content
             /\ sent' = IF Up THEN SendFrame(sent, TextFrame(content)) ELSE sent
             /\ bconv' = evs[1].conversation_id
    /\ pc' = IF Up THEN "stream" ELSE "closed"
    /\ UNCHANGED sentences
    /\ UNCHANGED <<service_client, ws, first, last, auth, paramVars, audio_buffer,
                   calls, req, created>>
    /\ UNCHANGED <<gwVars, tl, auxVars, store>>

\* the model is finished and the reply is stored: generate() yields done with
\* its own full text, which the consumer takes as full_text
StreamDone ==
    /\ pc = "stream" /\ brain.phase = "llm"
    /\ LET evs == Yielded(BrainChunk(DoneEvent(brain.full, brain.conv)))
       IN /\ events' = events \o evs
          /\ full_text' = evs[1].content
          /\ bconv' = evs[1].conversation_id
    /\ brain' = [brain EXCEPT !.phase = "done"]
    /\ UNCHANGED sentences
    /\ UNCHANGED <<connVars, gwVars, tl, auxVars, store>>

\* the model call or store.append raises: generate() yields an error event
StreamBrainError ==
    /\ pc = "stream" /\ brain.phase = "llm"
    /\ OnErrorEvent

\* the transport fails while the body is being read (before or after the
\* done line): chat_stream's except clause yields an error event
StreamTransportFail ==
    /\ pc = "stream" /\ brain.phase \in {"llm", "done"}
    /\ OnErrorEvent

\* call synthesize for the sentence s
StartSynthesis(s) ==
    /\ calls' = Append(calls, Call("synthesize", s, "", "", voice_id))
    /\ GwEnter(SessionTask, "synthesize")
    /\ pc' = "tts"

\* the body ends: the async for loop is over; synthesize the sentences or
\* send response.end
StreamEnd ==
    /\ pc = "stream" /\ brain.phase = "done"
    /\ brain' = BrainOff
    /\ IF ShouldSynthesize(mode, full_text)
       THEN /\ sentences' = split_sentences(full_text)
            /\ StartSynthesis(Head(split_sentences(full_text)))
            /\ UNCHANGED sent
       ELSE /\ sent' = IF Up THEN Append(sent, EndFrame(full_text)) ELSE sent
            /\ pc' = IF Up THEN "recv" ELSE "closed"
            /\ UNCHANGED <<sentences, calls, gw>>
    /\ UNCHANGED <<full_text, events>>
    /\ UNCHANGED <<service_client, ws, first, last, auth, paramVars, audio_buffer,
                   req, created>>
    /\ UNCHANGED <<stt_sem, tts_sem, tl, auxVars, storeVars>>

\* synthesize returned for the first remaining sentence: send the audio if
\* there is any, then go on with the next sentence or send response.end
AfterSynthesize ==
    /\ pc = "tts" /\ gw[SessionTask].phase = "ret"
    /\ LET audio == gw[SessionTask].res
           rest == Tail(sentences)
           audioOut == IF Truthy(audio) THEN <<BinaryFrame(audio.val)>> ELSE <<>>
       IN IF ~Up /\ (audioOut # <<>> \/ rest = <<>>)
          THEN /\ pc' = "closed"
               /\ gw' = [gw EXCEPT ![SessionTask] = GwIdle]
               /\ UNCHANGED <<sent, calls, sentences>>
          ELSE IF rest # <<>>
          THEN /\ sent' = sent \o audioOut
               /\ sentences' = rest
               /\ StartSynthesis(Head(rest))
          ELSE /\ sent' = sent \o audioOut \o <<EndFrame(full_text)>>
               /\ sentences' = rest
               /\ gw' = [gw EXCEPT ![SessionTask] = GwIdle]
               /\ pc' = "recv"
               /\ UNCHANGED calls
    /\ UNCHANGED <<full_text, brain, events>>
    /\ UNCHANGED <<service_client, ws, first, last, auth, paramVars, audio_buffer,
                   req, created>>
    /\ UNCHANGED <<stt_sem, tts_sem, tl, auxVars, storeVars>>

ClientStep ==
    \/ RecvBytes
    \/ RecvInvalidJson
    \/ RecvSessionEnd
    \/ RecvAudioStart
    \/ RecvIgnored
    \/ RecvAudioEndEmpty
    \/ RecvAudioEnd
    \/ RecvTextSend
    \/ PeerDisconnect

ServerStep ==
    \/ Connect
    \/ HandshakeDisconnected
    \/ HandshakeInvalid
    \/ HandshakeNotStart
    \/ HandshakeAuthFail
    \/ HandshakeOk
    \/ RecvDisconnected
    \/ AfterTranscribe
    \/ StreamOpenFail
    \/ StreamOpen
    \/ StreamEmptyDelta
    \/ StreamToken
    \/ StreamDone
    \/ StreamBrainError
    \/ StreamTransportFail
    \/ StreamEnd
    \/ AfterSynthesize
    \/ \E c \in Callers : GateAcquire(c)
    \/ \E c \in Callers : BackendReply(c)

Init == InitGw /\ InitConn /\ InitLoopIdle /\ InitAuxIdle

Next == ClientStep \/ ServerStep

Spec == Init /\ [][Next]_vars

\* the steps of a turn that need no further input from the peer: the
\* scheduler runs the task whenever a backend call has returned or timed out
TurnStep ==
    \/ AfterTranscribe
    \/ StreamOpenFail
    \/ StreamOpen
    \/ StreamEmptyDelta
    \/ StreamToken
    \/ StreamDone
    \/ StreamBrainError
    \/ StreamTransportFail
    \/ StreamEnd
    \/ AfterSynthesize
    \/ \E c \in Callers : GateAcquire(c)
    \/ \E c \in Callers : BackendReply(c)

FairSpec == Spec /\ WF_vars(TurnStep)

\* ---- the connection next to another session of the same process
\* The other session is one more task that goes through the ServiceClient:
\* its own buffer and parameters are locals of its own coroutine, and what it
\* shares with this connection is the ServiceClient and its two semaphores.
OtherSession == CHOOSE c \in Callers \ {SessionTask} :
    \A d \in Callers \ {SessionTask} : c <= d

\* the other session enters transcribe or synthesize
OtherInvoke ==
    /\ gw[OtherSession].phase = "idle"
    /\ \E op \in Gated : GwEnter(OtherSession, op)
    /\ UNCHANGED <<stt_sem, tts_sem, connVars, turnVars, tl, auxVars, storeVars>>

\* its request is answered or fails, the gate is released and the method
\* returns to it; what it got is its own business
OtherReturn ==
    /\ gw[OtherSession].phase = "req"
    /\ gw' = [gw EXCEPT ![OtherSession] = GwIdle]
    /\ IF gw[OtherSession].op = "transcribe"
       THEN stt_sem' = stt_sem + 1 /\ UNCHANGED tts_sem
       ELSE tts_sem' = tts_sem + 1 /\ UNCHANGED stt_sem
    /\ UNCHANGED <<connVars, turnVars, tl, auxVars, storeVars>>

\* it is cancelled (its peer went away) while it waits or while its request
\* is in flight
OtherCancel ==
    /\ gw[OtherSession].phase \in {"wait", "req"}
    /\ gw' = [gw EXCEPT ![OtherSession] = GwIdle]
    /\ IF gw[OtherSession].op = "transcribe"
       THEN stt_sem' = stt_sem + CancelRelease(gw[OtherSession].phase) /\ UNCHANGED tts_sem
       ELSE tts_sem' = tts_sem + CancelRelease(gw[OtherSession].phase) /\ UNCHANGED stt_sem
    /\ UNCHANGED <<connVars, turnVars, tl, auxVars, storeVars>>

\* a step of this connection
OwnStep == Next /\ gw'[OtherSession] = gw[OtherSession]

NextSessions ==
    \/ OwnStep
    \/ OtherInvoke
    \/ GateAcquire(OtherSession)
    \/ OtherReturn
    \/ OtherCancel

SpecSessions == Init /\ [][NextSessions]_vars

\* ================================================================ claims
\* C1: at any instant at most one transcribe request and at most one
\* synthesize request is in flight, whatever the callers and interleaving.
C1_OneInFlightPerGate ==
    /\ Cardinality(InFlight("transcribe")) <= 1
    /\ Cardinality(InFlight("synthesize")) <= 1

\* a transcribe request in flight while another transcribe call waits for the
\* gate and a synthesize request is in flight as well
C1_Witness ==
    /\ InFlight("transcribe") # {}
    /\ Waiting("transcribe") # {}
    /\ InFlight("synthesize") # {}

LoopOver == tl.pc \in {"returned", "raised"}
LastIsFinal == tl.last.none \/ tl.last.tool_calls = <<>>

\* C2: for max_iterations >= 1 run_tool_loop ends without raising; it stops at
\* the first response that is None or carries no tool calls, and when every
\* response carries tool calls it makes exactly max_iterations chat calls.
C2_LoopCallCount ==
    (LoopOver /\ tl.max >= 1) =>
        /\ tl.pc = "returned"
        /\ tl.nchat >= 1 /\ tl.nchat <= tl.max
        /\ LastIsFinal \/ tl.nchat = tl.max

\* ---- helpers over the frames and calls of the current inbound message
Last(q) == q[Len(q)]
HasType(fs, type) == \E i \in 1 .. Len(fs) : fs[i].type = type
CountType(fs, type) == Cardinality({i \in 1 .. Len(fs) : fs[i].type = type})
HasCall(cs, op) == \E i \in 1 .. Len(cs) : cs[i].op = op

RECURSIVE TextOf(_)
TextOf(fs) ==
    IF fs = <<>> THEN <<>>
    ELSE IF Head(fs).type = "response.text"
         THEN Head(fs).body \o TextOf(Tail(fs))
         ELSE TextOf(Tail(fs))

Terminals(fs) == CountType(fs, "error") + CountType(fs, "response.end")
Active == pc \in {"recv", "stt", "stream", "tts"}

\* C3: a first control message other than session.start is answered by a
\* protocol_error frame and a close; no session.created is ever sent, no
\* gateway call is made and the handler has returned.
C3_FirstMessageNotStart ==
    first \in CtlTypes \ {"session.start"} =>
        /\ pc = "closed" /\ ws = "closed"
        /\ sent = <<ErrorFrame("protocol_error"), CloseFrame("1000")>>
        /\ created = 0
        /\ calls = <<>>
        /\ last = "none"

C3_Witness == first = "text.send" /\ pc = "closed" /\ HasType(sent, "error")

\* C4: when the handshake fails authentication, an error frame is sent
\* before the connection is closed, no session.created is sent and the
\* session is never Active.
C4_AuthFailureErrorFrame ==
    auth = "failed" =>
        /\ \E i \in 1 .. Len(sent) :
              /\ sent[i].type = "error"
              /\ \A j \in 1 .. i : sent[j].type # "close"
        /\ created = 0
        /\ ~Active

\* C5: audio.end with an empty buffer gives exactly one frame, the no_audio
\* error, makes no gateway call, and the handler is back at its receive.
C5_EmptyAudioEnd ==
    (last = "audio.end" /\ req = "none") =>
        /\ sent = <<ErrorFrame("no_audio")>>
        /\ calls = <<>>
        /\ audio_buffer = <<>>
        /\ pc = "recv"
        /\ \A c \in Callers : gw[c].phase = "idle"

C5_Witness ==
    last = "audio.end" /\ req = "none" /\ pc = "recv" /\ Up /\ created = 1

\* C6: when a turn ends with response.end, the contents of the turn's
\* response.text frames, concatenated in send order, equal its full_text.
C6_TextFramesMakeFullText ==
    (sent # <<>> /\ Last(sent).type = "response.end") =>
        TextOf(sent) = Last(sent).body

C6_Witness ==
    /\ sent # <<>> /\ Last(sent).type = "response.end"
    /\ CountType(sent, "response.text") >= 2

\* C7: in a session with mode text no binary frame is sent and synthesize
\* is never called.
C7_TextModeNoAudio ==
    mode = "text" =>
        /\ ~HasType(sent, "binary")
        /\ ~HasCall(calls, "synthesize")
        /\ gw[SessionTask].op # "synthesize"
        /\ pc # "tts"

C7_Witness ==
    /\ mode = "text"
    /\ sent # <<>> /\ Last(sent).type = "response.end"
    /\ Strip(Last(sent).body) # <<>>

BlankTranscriptSent ==
    \E i \in 1 .. Len(sent) :
        sent[i].type = "transcription.final" /\ Strip(sent[i].body) = <<>>

\* C8 as stated: once the handler is back at its receive with the peer
\* connected, a text.send with non-blank text or an audio.end with a
\* non-empty buffer has been answered by exactly one terminal frame.
C8_EveryRequestAnswered ==
    (pc = "recv" /\ Up /\ req # "none") => Terminals(sent) = 1

\* C8 amended: every text.send with non-blank text and every audio.end with a
\* non-empty buffer is eventually answered by a terminal frame (response.end
\* or error) while the peer stays connected, except that an audio.end whose
\* transcript is blank is answered by transcription.final alone; and no
\* inbound message is answered by more than one terminal frame.
C8_AnsweredUnlessBlankTranscript ==
    /\ (req # "none") ~> (Terminals(sent) = 1 \/ BlankTranscriptSent \/ ~Up)
    /\ [](Terminals(sent) <= 1)
    /\ []((pc = "recv" /\ Up /\ req # "none")
            => (Terminals(sent) = 1 \/ BlankTranscriptSent))

C8_Witness ==
    /\ req = "audio" /\ pc = "recv" /\ Up
    /\ HasType(sent, "transcription.final")
    /\ HasType(sent, "response.end")

\* C9: the events chat_stream yields end with exactly one terminal event:
\* none follows a done or error event, and a finished stream has one.
C9_OneTerminalEventLast ==
    /\ \A k \in 1 .. Len(events) - 1 : events[k].type \notin {"done", "error"}
    /\ (req # "none" /\ pc \in {"recv", "tts"} /\ HasCall(calls, "chat_stream"))
          => (events # <<>> /\ Last(events).type \in {"done", "error"})

\* C10: after an error event of the chat stream the turn has sent exactly
\* one error frame, with code brain_error, no binary frame and no
\* response.end, has not called synthesize, and the session is still Active
\* at its receive.
C10_StreamErrorAbandonsTurn ==
    (events # <<>> /\ Last(events).type = "error" /\ pc # "closed") =>
        /\ pc = "recv"
        /\ CountType(sent, "error") = 1
        /\ Last(sent) = ErrorFrame("brain_error")
        /\ ~HasType(sent, "binary")
        /\ ~HasType(sent, "response.end")
        /\ ~HasCall(calls, "synthesize")

C10_Witness ==
    /\ events # <<>> /\ Last(events).type = "error"
    /\ pc = "recv" /\ Up /\ mode # "text"
    /\ HasType(sent, "response.text")
    /\ Strip(full_text) # <<>>

\* ---- C11: the synthesis loop of a turn
SynthCalls(cs) == SelectSeq(cs, LAMBDA c : c.op = "synthesize")
SynthArgs(cs) == [i \in 1 .. Len(SynthCalls(cs)) |-> SynthCalls(cs)[i].arg]
Prefix(q, n) == SubSeq(q, 1, n)
NewFrames == SubSeq(sent', Len(sent) + 1, Len(sent'))
\* a synthesize call of the turn has returned and the turn goes on
SynthReturned == pc = "tts" /\ sentences' # sentences /\ pc' # "closed"

\* what every return of synthesize does, given when it counts as successful:
\* one binary frame with the audio exactly when successful; the calls made so
\* far are the sentences of split_sentences(full_text) in order, one each;
\* after the last sentence response.end with the full text follows
SynthesisLoop(success) ==
    SynthReturned =>
        LET all == split_sentences(full_text)
            n == Len(SynthArgs(calls))
        IN /\ mode # "text" /\ Strip(full_text) # <<>>
           /\ SynthArgs(calls) = Prefix(all, n)
           /\ CountType(NewFrames, "binary") = IF success THEN 1 ELSE 0
           /\ success => NewFrames[1] = BinaryFrame(gw[SessionTask].res.val)
           /\ IF n < Len(all)
              THEN /\ pc' = "tts"
                   /\ SynthArgs(calls') = Prefix(all, n + 1)
                   /\ ~HasType(NewFrames, "response.end")
              ELSE /\ pc' = "recv"
                   /\ calls' = calls
                   /\ Last(sent') = EndFrame(full_text)
                   /\ CountType(sent', "response.end") = 1

\* C11 as stated: synthesize is called once per sentence of
\* split_sentences(full_text), in order, whatever earlier calls returned; a
\* failed synthesis (None) sends no binary frame, every successful one sends
\* one, and response.end with the full text follows the last sentence.
C11_EverySuccessOneFrame ==
    [][SynthesisLoop(~gw[SessionTask].res.none)]_vars

\* C11 amended: as above, but a binary frame is sent exactly for the
\* syntheses that return non-empty audio; a synthesis that fails or returns
\* zero bytes sends none.
C11_EveryAudioOneFrame ==
    [][SynthesisLoop(~gw[SessionTask].res.none
                     /\ gw[SessionTask].res.val # <<>>)]_vars

\* a finished turn of two sentences of which exactly one gave a binary frame
C11_Witness ==
    /\ pc = "recv" /\ Up /\ mode # "text"
    /\ sent # <<>> /\ Last(sent).type = "response.end"
    /\ Len(SynthArgs(calls)) = 2
    /\ CountType(sent, "binary") = 1

\* the probe of backend b fails: no response with status 200 reaches it
ProbeFails(b) == ~hc.started \/ hc.fate[b] # "200"

\* C12: check_all_services reports each backend from its own probe only:
\* whatever subset of the probes fails and in whatever order they complete,
\* exactly the backends whose probe failed are reported unhealthy, the
\* others healthy; the call never raises (it always ends by returning).
C12_HealthPerBackend ==
    /\ hc.pc \in {"gather", "returned"}
    /\ hc.pc = "returned" =>
          \A b \in Backends :
              hc.out[b] = IF ProbeFails(b) THEN "unhealthy" ELSE "healthy"
    /\ \A i \in 1 .. Len(hc.order) :
          hc.result[hc.order[i]] =
              IF ProbeFails(hc.order[i]) THEN "unhealthy" ELSE "healthy"

\* the call has returned; the brain probe completed first, the stt probe
\* last; exactly the tts probe failed (by timeout)
C12_Witness ==
    /\ hc.pc = "returned" /\ hc.started
    /\ hc.order = <<"brain", "tts", "stt">>
    /\ hc.fate = [b \in Backends |-> IF b = "tts" THEN "timeout" ELSE "200"]
    /\ hc.out["tts"] = "unhealthy" /\ hc.out["stt"] = "healthy"

\* ---- C13: the shape of a text
\* position i holds a terminator that is followed by whitespace
IsBoundary(t, i) == i < Len(t) /\ t[i] \in Punct /\ t[i + 1] \in Whitespace
NumClauses(t) == Cardinality({i \in 1 .. Len(t) : IsBoundary(t, i)})
\* the text is made of terminated clauses only: it ends with a terminator
\* followed by whitespace
ClausesOnly(t) ==
    /\ t # <<>> /\ Last(t) \in Whitespace
    /\ RStrip(t) # <<>> /\ Last(RStrip(t)) \in Punct
NoPunct(t) == \A i \in 1 .. Len(t) : t[i] \notin Punct
Squeeze(t) == SelectSeq(t, LAMBDA ch : ch \notin Whitespace)
RECURSIVE Concat(_)
Concat(ss) == IF ss = <<>> THEN <<>> ELSE Head(ss) \o Concat(Tail(ss))
\* s occurs in t as a contiguous piece
PieceOf(s, t) ==
    \E i \in 1 .. Len(t) - Len(s) + 1 : SubSeq(t, i, i + Len(s) - 1) = s

\* C13: a text of N clauses, each ended by . ! or ? and whitespace, gives
\* exactly N sentences, each a non-empty trimmed piece of the text ending
\* with its terminator, in the order of the text; a non-blank text without
\* any terminator gives the single sentence that is the trimmed text; an
\* empty or whitespace-only text gives the empty list.
C13_SplitSentences ==
    seg.pc = "out" =>
        LET t == seg.text
            out == seg.out
        IN /\ ClausesOnly(t) =>
                 /\ Len(out) = NumClauses(t)
                 /\ \A k \in 1 .. Len(out) :
                       /\ out[k] # <<>>
                       /\ Head(out[k]) \notin Whitespace
                       /\ Last(out[k]) \in Punct
                       /\ PieceOf(out[k], t)
                       /\ \A i \in 1 .. Len(out[k]) : ~IsBoundary(out[k], i)
                 /\ Squeeze(Concat(out)) = Squeeze(t)
           /\ (NoPunct(t) /\ Strip(t) # <<>>) => out = <<Strip(t)>>
           /\ Strip(t) = <<>> => out = <<>>

\* two clauses with different terminators and different whitespace
C13_Witness ==
    /\ seg.pc = "out"
    /\ seg.text = <<"a", ".", "\n", "?", " ">>
    /\ seg.out = << <<"a", ".">>, <<"?">> >>

\* C14: a gate is held exactly by the transcribe/synthesize calls whose
\* backend request is in progress: a call that has returned (with a result
\* or None after an error, a timeout or a bad status) or whose task was
\* cancelled holds no permit, so with no request in progress each gate has
\* all its permits again.
C14_GateHeldOnlyInFlight ==
    /\ stt_sem = SttPermits - Cardinality(InFlight("transcribe"))
    /\ tts_sem = TtsPermits - Cardinality(InFlight("synthesize"))
    /\ stt_sem \in 0 .. SttPermits /\ tts_sem \in 0 .. TtsPermits

\* one transcribe call was cancelled, one returned None, and the third has
\* the gate, which the first two no longer hold
C14_Witness ==
    /\ \E c1, c2, c3 \in Callers :
          /\ gw[c1].op = "transcribe" /\ gw[c1].phase = "cancelled"
          /\ gw[c2].op = "transcribe" /\ gw[c2].phase = "ret" /\ gw[c2].res.none
          /\ gw[c3].op = "transcribe" /\ gw[c3].phase = "req"
    /\ stt_sem = 0 /\ tts_sem = TtsPermits

\* C15: transcribe, chat and synthesize never raise: after every backend
\* failure (network error, timeout, non-success status, client not started)
\* the call has returned None; chat_stream never raises either: after a
\* failure the last event it yielded is an error event.
C15_FailuresBecomeNone ==
    \A c \in Callers :
        /\ gw[c].phase # "raised"
        /\ (gw[c].phase = "ret" /\ gw[c].fail # "none") =>
              IF gw[c].op = "chat_stream"
              THEN ~gw[c].res.none /\ Last(gw[c].res.val) = "error"
              ELSE gw[c].op \in {"transcribe", "chat", "synthesize"}
                   /\ gw[c].res = NoResult

\* three calls have ended after three different failures, one of them a
\* chat_stream that had already yielded a token
C15_Witness ==
    \E c1, c2, c3 \in Callers :
        /\ gw[c1].op = "transcribe" /\ gw[c1].phase = "ret"
        /\ gw[c1].fail = "not_started"
        /\ gw[c2].op = "chat" /\ gw[c2].phase = "ret" /\ gw[c2].fail = "status"
        /\ gw[c3].op = "chat_stream" /\ gw[c3].phase = "ret"
        /\ gw[c3].fail = "timeout" /\ gw[c3].res.val = <<"token", "error">>

\* ---- C16: the step of run_tool_loop in which chat returns None
ChatGaveNone == tl.pc = "loop" /\ tl'.last.none /\ tl'.nchat = tl.nchat + 1
\* the conversation id known before a chat call: that of the previous
\* response, or the caller's when there was no response yet
KnownConversation ==
    IF tl.nchat = 0 THEN tl.conv ELSE tl.last.conversation_id

\* C16: a None response at any iteration ends run_tool_loop at once: it
\* returns the fixed fallback message with the most recently known
\* conversation id ('' when none is known), no tool is executed for it, and
\* once the loop has ended no further chat call is made.
C16_NoneEndsLoop ==
    [][/\ ChatGaveNone =>
             /\ tl'.pc = "returned"
             /\ tl'.out.message =
                   <<"I'm having trouble connecting to my brain. Please try again.">>
             /\ tl'.out.conversation_id =
                   IF KnownConversation = NoneStr THEN "" ELSE KnownConversation
             /\ tl'.message = tl.message /\ tl'.i = tl.i
       /\ LoopOver => tl' = tl]_vars

\* the third chat call returned None after two rounds of tool calls; the
\* result carries the conversation id of the second response
C16_Witness ==
    /\ tl.pc = "returned" /\ tl.last.none
    /\ tl.nchat = 3 /\ tl.i = 2
    /\ tl.out.message = Fallback /\ tl.out.conversation_id = "c2"

\* C17: no failure while handling a requested tool call escapes from
\* run_tool_loop as an exception: whatever the tool name, the arguments
\* payload and the behaviour of the tool, the loop records one textual result
\* per tool call and goes on, so it never ends by raising after a response
\* that carried tool calls.
C17_ToolFailuresContained ==
    /\ tl.pc = "raised" => (tl.last.none \/ tl.last.tool_calls = <<>>)
    /\ (tl.pc = "loop" /\ tl.i > 0) =>
          Cardinality({k \in 1 .. Len(tl.message) : tl.message[k] = "]: "})
              = Len(tl.last.tool_calls)

\* ---- C18: the iteration bound is reached and the last response still
\* carried tool calls
BoundReached ==
    /\ tl.pc = "loop" /\ tl.i >= tl.max
    /\ ~tl.last.none /\ tl.last.tool_calls # <<>>

\* C18: at its iteration bound, with the backend still returning tool
\* calls, run_tool_loop makes no further chat call and does not raise: it
\* returns the message of the last response (possibly empty) and the
\* conversation id of the last response.
C18_BoundReturnsLastMessage ==
    [][BoundReached =>
          /\ tl.nchat = tl.max
          /\ tl'.pc = "returned"
          /\ tl'.nchat = tl.nchat
          /\ tl'.out = [message |-> tl.last.message,
                        conversation_id |-> tl.last.conversation_id]]_vars

\* two iterations, both answered with tool calls; the last response had an
\* empty message, which is what was returned
C18_Witness ==
    /\ tl.pc = "returned" /\ tl.max = 2 /\ tl.nchat = 2 /\ tl.i = 2
    /\ tl.last.tool_calls # <<>>
    /\ tl.out.message = <<>> /\ tl.out.conversation_id = "c2"

\* C19: session.created is sent exactly once per connection, by the
\* successful handshake: nothing is sent before it, so it is the first frame;
\* it carries the session_id and the conversation_id of the session ('' when
\* session.start gave none); and no message of the main loop (audio bytes,
\* audio.start, audio.end, text.send) is processed, no gateway call made and
\* no audio buffered before it has been sent.
C19_CreatedOnceAndFirst ==
    /\ created \in {0, 1}
    /\ created = 1 <=> auth = "ok"
    /\ pc \in {"off", "await_start"} => sent = <<>>
    /\ created = 0 =>
          /\ ~Active
          /\ last = "none" /\ req = "none"
          /\ calls = <<>> /\ audio_buffer = <<>>
          /\ \A c \in Callers : gw[c].phase = "idle"
          /\ ~HasType(sent, "session.created")
    /\ (created = 1 /\ last = "none") =>
          /\ sent # <<>>
          /\ sent[1].type = "session.created"
          /\ sent[1].sid = session_id /\ session_id # NoneStr
          /\ sent[1].cid = IF conversation_id = NoneStr THEN "" ELSE conversation_id
          /\ CountType(sent, "session.created") = 1
    /\ last # "none" => ~HasType(sent, "session.created")

\* the handshake has just succeeded with a conversation id in session.start
C19_Witness ==
    /\ created = 1 /\ last = "none" /\ pc = "recv" /\ Up
    /\ sent = <<CreatedFrame("sid", "c0")>>

\* C20: once the Brain has returned a conversation_id in the events of a
\* turn of the connection, the chat_stream request of every later turn names
\* that same conversation, also when session.start carried no
\* conversation_id.
C20_OneConversationPerSession ==
    (pc = "stream" /\ brain.phase = "connecting" /\ bconv # NoneStr) =>
        calls[Len(calls)].cid = bconv

\* ---- C21: what one step does to the audio buffer
\* the handler takes a message from its receive
Receives == pc = "recv" /\ ws = "open" /\ ws' # "gone" /\ last' # "disconnect"

\* C21: the audio buffer changes in three ways only: a binary frame is
\* appended at its end, audio.start empties it, and an audio.end that finds
\* it non-empty passes exactly its contents to transcribe and leaves it empty
\* once transcribe has returned, with a transcript or with None; so the bytes
\* transcribed are the frames received since the last audio.start or
\* consuming audio.end, in arrival order.
C21_BufferIsFramesSinceReset ==
    [][/\ (Receives /\ last' = "bytes") =>
             \E b \in AudioBytes : audio_buffer' = audio_buffer \o <<b>>
       /\ (Receives /\ last' = "audio.start") => audio_buffer' = <<>>
       /\ (Receives /\ last' = "audio.end") =>
             IF audio_buffer = <<>>
             THEN audio_buffer' = <<>> /\ calls' = <<>>
             ELSE /\ audio_buffer' = audio_buffer
                  /\ pc' = "stt"
                  /\ Len(calls') = 1
                  /\ calls'[1].op = "transcribe"
                  /\ calls'[1].arg = audio_buffer
       /\ (Receives /\ last' \notin {"bytes", "audio.start", "audio.end"}) =>
             audio_buffer' = audio_buffer
       /\ (pc = "stt" /\ pc' = "stt") => audio_buffer' = audio_buffer
       /\ (pc = "stt" /\ pc' # "stt") => audio_buffer' = <<>>
       /\ pc \in {"stream", "tts"} =>
             /\ audio_buffer' = audio_buffer
             /\ req = "audio" => audio_buffer = <<>>
      ]_vars

\* two frames are being transcribed in arrival order
C21_Witness ==
    /\ pc = "stt" /\ last = "audio.end"
    /\ calls = <<Call("transcribe", <<"y", "x">>, "", "", "")>>
    /\ audio_buffer = <<"y", "x">>

\* ---- C22: order of the frames of a turn
TokenContents(es) ==
    LET ts == SelectSeq(es, LAMBDA e : e.type = "token")
    IN [i \in 1 .. Len(ts) |-> ts[i].content]
TextBodies(fs) ==
    LET ts == SelectSeq(fs, LAMBDA f : f.type = "response.text")
    IN [i \in 1 .. Len(ts) |-> ts[i].body]
InTurn == pc \in {"stream", "tts"}

\* C22: the response.text frames of a turn carry the contents of the token
\* events in the order chat_stream yielded them; the audio of the k-th
\* sentence is sent when its synthesize call returns, before the call for
\* sentence k+1 is made, so binary frames follow sentence order; frames are
\* only ever added after those already sent, and response.end, once sent, is
\* the last frame of the turn.
C22_FramesInOrder ==
    /\ [](pc # "closed" => TextBodies(sent) = TokenContents(events))
    /\ [](\A i \in 1 .. Len(sent) :
             sent[i].type = "response.end" => i = Len(sent))
    /\ [][/\ InTurn =>
                /\ Len(sent') >= Len(sent)
                /\ SubSeq(sent', 1, Len(sent)) = sent
          /\ (SynthReturned /\ Truthy(gw[SessionTask].res)) =>
                /\ NewFrames[1] = BinaryFrame(gw[SessionTask].res.val)
                /\ Head(sentences) =
                      split_sentences(full_text)[Len(SynthArgs(calls))]
                /\ \A k \in 2 .. Len(NewFrames) :
                      NewFrames[k].type = "response.end"
         ]_vars

\* a finished turn: two text frames, then the audio of the two sentences,
\* then response.end
C22_Witness ==
    /\ pc = "recv" /\ Up
    /\ sent = <<TextFrame(<<"a", ".", " ">>), TextFrame(<<"b">>),
                BinaryFrame(<<"v">>), BinaryFrame(<<"w">>),
                EndFrame(<<"a", ".", " ", "b">>)>>

\* C23: once session.end has been processed the handler has returned: no
\* frame was sent for it, no backend call is pending or made, and from then
\* on nothing of the connection changes: no frame, no call, no message
\* processed, whatever the buffer held.
C23_SessionEndStopsAll ==
    /\ [](last = "session.end" =>
             /\ pc = "closed" /\ ws = "closed"
             /\ sent = <<>> /\ calls = <<>> /\ req = "none"
             /\ gw[SessionTask].phase = "idle"
             /\ brain.phase = "off")
    /\ [][last = "session.end" =>
             /\ UNCHANGED <<connVars, turnVars, gwVars>>]_vars

\* session.end arrived while two audio frames were buffered
C23_Witness ==
    /\ last = "session.end" /\ pc = "closed" /\ created = 1
    /\ Len(audio_buffer) = 2

\* C24: a control message of the main loop whose type is none of
\* audio.start, audio.end, text.send, session.end (a second session.start
\* included) is ignored: no frame and no backend call result from it, the
\* audio buffer and the session parameters stay as they were, and the
\* handler is back at its receive with the connection open.
C24_UnknownTypeIgnored ==
    /\ []((last \in CtlTypes \ KnownTypes) =>
             /\ sent = <<>> /\ calls = <<>> /\ req = "none"
             /\ pc \in {"recv", "closed"}
             /\ gw[SessionTask].phase = "idle")
    /\ [][(Receives /\ last' \in CtlTypes \ KnownTypes) =>
             /\ pc' = "recv" /\ ws' = "open"
             /\ audio_buffer' = audio_buffer
             /\ UNCHANGED <<paramVars, gwVars, created, auth>>
             /\ UNCHANGED <<full_text, sentences, brain, store, bconv>>]_vars

\* a second session.start arrived in a text-mode session holding audio
C24_Witness ==
    /\ last = "session.start" /\ pc = "recv" /\ Up /\ created = 1
    /\ mode = "text" /\ audio_buffer = <<"x">>

\* C25: a peer disconnect aborts the current turn: once the peer is gone the
\* session starts no new backend call (transcribe, chat_stream, synthesize).
C25_DisconnectAbortsTurn ==
    [][ws = "gone" => Len(calls') <= Len(calls)]_vars

\* ---- C26: transcribe has come back from a failed backend request and the
\* handler goes on with the peer connected
SttFailed ==
    /\ pc = "stt" /\ pc' # "stt" /\ Up
    /\ gw[SessionTask].phase = "ret" /\ gw[SessionTask].fail # "none"

\* C26: when the recognition backend fails or times out at an audio.end
\* with a non-empty buffer, exactly one frame is sent for that audio, the
\* error stt_unavailable; no chat_stream and no synthesize call is made for
\* it; the session stays Active at its receive, ready for the next message.
C26_SttUnavailable ==
    /\ [][SttFailed =>
             /\ sent = <<>> /\ sent' = <<ErrorFrame("stt_unavailable")>>
             /\ calls' = calls /\ Len(calls) = 1 /\ calls[1].op = "transcribe"
             /\ pc' = "recv" /\ ws' = "open"
             /\ brain' = brain /\ brain.phase = "off"]_vars
    /\ []((Up /\ \E i \in 1 .. Len(sent) : sent[i] = ErrorFrame("stt_unavailable")) =>
             /\ pc = "recv" /\ Active
             /\ ~HasCall(calls, "chat_stream") /\ ~HasCall(calls, "synthesize")
             /\ ENABLED RecvTextSend /\ ENABLED RecvBytes)

\* the transcription of two frames failed; the session is at its receive
C26_Witness ==
    /\ pc = "recv" /\ Up /\ last = "audio.end" /\ req = "audio"
    /\ sent = <<ErrorFrame("stt_unavailable")>>
    /\ calls = <<Call("transcribe", <<"x", "y">>, "", "", "")>>

\* C27: a failure that the main loop does not handle itself (a text frame
\* that is not valid JSON) ends the handler through the top-level except
\* clause: exactly one frame, the error internal_error, is sent for it, no
\* backend call is made, no further message is processed and the connection
\* is closed; an internal_error frame is never followed by anything.
C27_TopLevelCatch ==
    /\ [](last = "invalid" =>
             /\ pc = "closed" /\ ws = "closed"
             /\ sent = <<ErrorFrame("internal_error")>>
             /\ calls = <<>>
             /\ gw[SessionTask].phase = "idle")
    /\ [](\A i \in 1 .. Len(sent) :
             sent[i] = ErrorFrame("internal_error") =>
                 i = Len(sent) /\ pc = "closed")
    /\ [][pc = "closed" => UNCHANGED <<connVars, turnVars, gwVars>>]_vars

\* a malformed text frame arrived in an Active session holding audio
C27_Witness ==
    /\ last = "invalid" /\ created = 1 /\ pc = "closed"
    /\ audio_buffer = <<"x", "y">>
    /\ sent = <<ErrorFrame("internal_error")>>

\* C28: validate_ws_token accepts the API key as the token query parameter
\* or in the first message, and accepts every handshake when no key is
\* configured: so a handshake is rejected only if a key is configured and
\* neither the query parameter nor the token of session.start equals it.
C28_TokenInMessageAccepted ==
    auth = "failed" =>
        /\ rejected.key # NoneStr
        /\ rejected.query # rejected.key
        /\ rejected.msg # rejected.key

\* ---- C29: load_or_recover has just run on a corrupted data file
AfterRecovery == js.pc = "up" /\ js.last = "recover" /\ js.before # NoState

\* C29: after any sequence of successful create, update and delete operations
\* followed by corruption of the data file, a new store that runs
\* load_or_recover contains every item that existed before the corruption
\* (stated for the store as create_app configures it, with a WAL file, and
\* for an item's id, as test_backups_and_wal_recovery looks for it).
C29_RecoveryKeepsItems ==
    (AfterRecovery /\ js.wal_file) => IdsOf(js.before) \subseteq IdsOf(js.state)

\* ---- C30: this connection and the other sessions of the process
OtherSessions == Callers \ {SessionTask}
\* what the session owns: its locals in conversation_ws and
\* _process_and_respond, and its own pending ServiceClient call
SessionView == <<connVars, turnVars, bconv, gw[SessionTask]>>
OtherSessionStep == \E c \in OtherSessions : gw'[c] # gw[c]
SessionStep == SessionView' # SessionView
HeldByOther(op) == \E c \in OtherSessions : gw[c].op = op /\ gw[c].phase = "req"

\* C30: sessions do not interfere outside the two gates. A step of another
\* session leaves this session's frames, buffer, mode, voice, provider,
\* conversation_id and pending call as they were; a step of this session
\* leaves the other sessions' calls as they were; and the only thing this
\* session ever waits for because of another session is a gate that the
\* other one holds.
C30_NoInterference ==
    /\ [](gw[SessionTask].phase = "wait" /\ ~CanAcquire(SemOf(gw[SessionTask].op))
            => HeldByOther(gw[SessionTask].op))
    /\ [][OtherSessionStep => UNCHANGED SessionView]_vars
    /\ [][SessionStep => \A c \in OtherSessions : gw'[c] = gw[c]]_vars

\* the session is in a turn, has sent frames, and waits for the synthesize
\* gate while another session's synthesize request is in flight
C30_Witness ==
    /\ pc = "tts" /\ Len(sent) > 0
    /\ gw[SessionTask].phase = "wait"
    /\ HeldByOther("synthesize")

\* C31: the two gates are independent and chat is ungated. A chat or
\* chat_stream call is never in the waiting phase, and a transcribe or
\* synthesize call that waits can take its gate whenever no call of the same
\* kind is in flight, whatever calls of the other kinds are in flight.
C31_GatesIndependent ==
    \A c \in Callers :
        /\ gw[c].op \in Ungated => gw[c].phase # "wait"
        /\ (gw[c].phase = "wait" /\ InFlight(gw[c].op) = {})
              => ENABLED GateAcquire(c)

\* a synthesize call can take its gate while a transcribe request and a chat
\* request are in flight
C31_Witness ==
    /\ InFlight("transcribe") # {}
    /\ InFlight("chat") \cup InFlight("chat_stream") # {}
    /\ \E c \in Callers : gw[c].op = "synthesize" /\ gw[c].phase = "wait"
                          /\ ENABLED GateAcquire(c)

\* ---- C32: blank user text
IsBlank(t) == \A i \in DOMAIN t : t[i] \in Whitespace
ChatCalls == {i \in DOMAIN calls : calls[i].op \in {"chat", "chat_stream"}}
BlankTranscript ==
    \E i \in DOMAIN sent :
        sent[i].type = "transcription.final" /\ IsBlank(sent[i].body)

\* C32: a text.send whose text is blank, and an audio.end whose transcript is
\* blank, drive no turn. No chat call ever carries a blank text; a text.send
\* that starts no call sends nothing and leaves the session receiving; after
\* a blank transcript the only frame is transcription.final, no chat or
\* synthesize call is made, and the session goes on receiving.
C32_BlankTextNoTurn ==
    /\ [](\A i \in ChatCalls : ~IsBlank(calls[i].arg))
    /\ [](BlankTranscript =>
            /\ Len(sent) = 1
            /\ \A i \in DOMAIN calls : calls[i].op = "transcribe"
            /\ pc = "recv")
    /\ [][(pc = "recv" /\ last' = "text.send" /\ ChatCalls' = {}) =>
            /\ sent' = <<>> /\ calls' = <<>> /\ pc' = "recv"
            /\ UNCHANGED <<paramVars, audio_buffer, full_text, sentences, brain>>]_vars

\* a blank transcript has been answered with transcription.final alone
C32_Witness ==
    /\ BlankTranscript /\ pc = "recv" /\ last = "audio.end"
    /\ \E i \in DOMAIN sent : sent[i].body = <<" ">>

\* ---- C33: the arguments of the next chat call of run_tool_loop
\* the lines of a text
RECURSIVE LinesOf(_)
LinesOf(t) ==
    IF \A i \in DOMAIN t : t[i] # "\n" THEN <<t>>
    ELSE LET k == CHOOSE i \in DOMAIN t :
                     t[i] = "\n" /\ \A j \in 1 .. (i - 1) : t[j] # "\n"
         IN  <<SubSeq(t, 1, k - 1)>> \o LinesOf(SubSeq(t, k + 1, Len(t)))
\* the lines "[name]: result" that one tool call can give
ResultLines(tc, registry) ==
    {<<"[", tc.name, "]: ">> \o x :
        x \in IF tc.name \in registry
              THEN {<<"r">>, <<"Error executing ", tc.name, ": ", "boom">>}
              ELSE {<<"Unknown tool: ", tc.name>>}}
\* the loop is about to make a chat call that is not its first
NextCallFollowsResponse == tl.pc = "loop" /\ tl.nchat >= 1 /\ tl.i < tl.max

\* C33: every chat call after the first sends the conversation id returned
\* by the immediately preceding response, and a message that is the labeled
\* results of all tool calls of that response, one per line, in request order.
C33_NextCallArguments ==
    NextCallFollowsResponse =>
        /\ tl.conv = tl.last.conversation_id
        /\ LET ls == LinesOf(tl.message)
               tcs == tl.last.tool_calls
           IN  /\ Len(ls) = Len(tcs)
               /\ \A k \in DOMAIN tcs : ls[k] \in ResultLines(tcs[k], tl.registry)

\* a second response with two different tool calls is about to be answered
C33_Witness ==
    /\ NextCallFollowsResponse /\ tl.nchat >= 2
    /\ Len(tl.last.tool_calls) >= 2
    /\ tl.last.tool_calls[1].name # tl.last.tool_calls[2].name
    /\ tl.conv # "c0"

\* C34: run_tool_loop called with an iteration bound of 0 makes no backend
\* call and still ends with a textual result, without raising.
C34_ZeroBoundReturns ==
    (tl.pc \in {"returned", "raised"} /\ tl.max = 0) =>
        tl.pc = "returned" /\ tl.nchat = 0

\* ---- C35: the lifecycle of the session
\* AwaitingStart, Active, Closed; Closing is the passage from the break of
\* the main loop to the return of the handler, inside the step that closes
LifecycleRank ==
    CASE pc = "off" -> 0
      [] pc = "await_start" -> 1
      [] pc \in {"recv", "stt", "stream", "tts"} -> 2
      [] pc = "closed" -> 3
SecondStart == pc = "recv" /\ last' = "session.start"

\* C35: the lifecycle only moves forward, the session_id, voice_id, provider
\* and mode fixed by the handshake never change while Active, and a second
\* session.start received while Active renegotiates nothing and sends no
\* second session.created.
C35_LifecycleForward ==
    /\ [][LifecycleRank' >= LifecycleRank]_vars
    /\ [][(pc # "await_start" /\ pc # "off") =>
            UNCHANGED <<session_id, voice_id, provider, mode, created>>]_vars
    /\ [][(Active /\ sent' # sent) => ~HasType(sent', "session.created")]_vars
    /\ [][SecondStart =>
            /\ sent' = <<>> /\ calls' = <<>> /\ pc' = "recv"
            /\ UNCHANGED <<paramVars, audio_buffer>>]_vars

\* a session.start has been received and ignored in an Active session whose
\* handshake fixed parameters other than the defaults
C35_Witness ==
    /\ pc = "recv" /\ last = "session.start" /\ created = 1
    /\ mode = "voice" /\ voice_id = "v1" /\ provider = "p1"

\* ---- C36: what chat_stream has yielded of a response body
WellFormed(line) == line.data /\ line.json
\* the events of the well-formed lines among the first n, in order
EventsEmitted(lines, n) ==
    LET wf == SelectSeq(SubSeq(lines, 1, n), WellFormed)
    IN  [k \in DOMAIN wf |-> wf[k].event]

\* C36: chat_stream skips a malformed or non-event line without ending the
\* stream: what it has yielded is always the events of the well-formed lines
\* read so far, in emission order (followed by its own error event if the
\* transport failed), and it stops reading only when the body or the
\* transport ends.
C36_SkipsMalformedLines ==
    /\ sse.pc \in {"reading", "done"} =>
          sse.out = EventsEmitted(sse.lines, sse.n)
                       \o (IF sse.failed THEN <<ErrorEvent>> ELSE <<>>)
    /\ (sse.pc = "done" /\ ~sse.failed) => sse.n = Len(sse.lines)

\* a body with a malformed line between two events has been read to its end
C36_Witness ==
    /\ sse.pc = "done" /\ ~sse.failed /\ Len(sse.lines) = 3
    /\ WellFormed(sse.lines[1]) /\ sse.lines[2] = MalformedLine
    /\ WellFormed(sse.lines[3])
    /\ Len(sse.out) = 2

\* ---- C37: turns and inbound messages
\* the handler takes one inbound message off the socket and processes it
InboundStep ==
    \/ RecvBytes
    \/ RecvInvalidJson
    \/ RecvSessionEnd
    \/ RecvAudioStart
    \/ RecvIgnored
    \/ RecvAudioEndEmpty
    \/ RecvAudioEnd
    \/ RecvTextSend
\* the message being processed has a transcription or a turn in progress
Busy == pc \in {"stt", "stream", "tts"}
TerminalFrame(f) == f.type = "response.end" \/ (f.type = "error" /\ f.code = "brain_error")
\* the frames of the current message hold at most one terminal frame, last
OneTerminalLast ==
    \A i \in DOMAIN sent : TerminalFrame(sent[i]) => i = Len(sent)

\* C37: turns of one session are strictly sequential. While a turn is in
\* progress no inbound message is processed: the buffer, the parameters and
\* the record of the last message stay as they are, except for the buffer
\* being cleared when transcribe returns. The next message is taken only when
\* the turn before it, if there was one, has sent its terminal frame, and no
\* frame follows a terminal frame within one message.
C37_TurnsSequential ==
    /\ []OneTerminalLast
    /\ [][Busy => /\ last' = last
                  /\ UNCHANGED paramVars
                  /\ (pc # "stt" => audio_buffer' = audio_buffer)]_vars
    /\ [][InboundStep =>
            /\ ~Busy
            /\ HasCall(calls, "chat_stream") =>
                  (sent # <<>> /\ TerminalFrame(sent[Len(sent)]))]_vars

\* a message is taken right after a turn that streamed text and ended
C37_Witness ==
    /\ pc = "recv" /\ HasCall(calls, "chat_stream")
    /\ HasType(sent, "response.text")
    /\ sent[Len(sent)].type = "response.end"
    /\ ENABLED RecvSessionEnd /\ ENABLED RecvBytes

\* C38: under fair scheduling, with every backend request returning or timing
\* out, every transcribe or synthesize call that waits for its gate
\* eventually acquires it and returns (or is cancelled by its caller). The
\* callers are interchangeable, so it is stated for the call of one of them
\* among all the others.
C38_NoGateDeadlock ==
    (gw[SessionTask].phase = "wait")
        ~> (gw[SessionTask].phase \in {"ret", "cancelled"})

\* the session's call and another wait for the transcribe gate that a third
\* call holds
C38_Witness ==
    /\ InFlight("transcribe") # {}
    /\ SessionTask \in Waiting("transcribe")
    /\ Cardinality(Waiting("transcribe")) >= 2

\* C39: load_or_recover after a corrupted data file restores exactly the
\* pre-corruption state: each item that existed appears exactly once with its
\* latest content, deleted items are absent and no two items share an id
\* (stated for the store with a WAL file, as create_app configures it).
C39_RecoveryRestoresExactly ==
    (AfterRecovery /\ js.wal_file) =>
        /\ js.state = js.before
        /\ \A i, j \in DOMAIN js.state :
              js.state[i].id = js.state[j].id => i = j

\* two requests name the same conversation_id, which did not exist when
\* they arrived
SameNewConversation(p, q) ==
    /\ p # q
    /\ cdb.r[p].conversation_id = cdb.r[q].conversation_id
    /\ cdb.r[p].conversation_id # NoneStr
    /\ cdb.r[p].conversation_id \notin cdb.initial

\* C40: for any interleaving of two chat requests that name the same
\* not-yet-existing conversation_id, neither request fails in get-or-create,
\* and once both are past it the conversation exists and both use it.
C40_GetOrCreateSafe ==
    cdb.pc = "serving" =>
       \A p, q \in ChatRequests :
          SameNewConversation(p, q) =>
             /\ cdb.r[p].pc # "integrity_error"
             /\ (cdb.r[p].pc \notin {"start", "checked"}
                   /\ cdb.r[q].pc \notin {"start", "checked"}) =>
                   /\ cdb.r[p].conversation_id \in cdb.conversations
                   /\ cdb.r[p].conv_id = cdb.r[q].conv_id

====
